---- MODULE Spec2Model ----
(***************************************************************************)
(* Rule engine of klaudiush (internal/rules): pattern compilation and the  *)
(* pattern cache, the matcher algebra, the rule registry and the evaluator.*)
(***************************************************************************)
EXTENDS Integers, Sequences, FiniteSets, TLC

VARIABLES
    cache,      \* PatternCache: [patterns, errors], keyed by the pattern text
    compiles,   \* CompilePattern invocations per text since construction
    epochComp,  \* CompilePattern invocations per text since the last Clear
    clears,     \* PatternCache.Clear calls so far
    cpc,        \* per goroutine: position inside PatternCache.Get
    ctext,      \* per goroutine: the patternStr argument of its Get
    returned,   \* per text: the values Get returned since the last Clear
    calls,      \* per text: Get calls completed since the last Clear (capped)
    regs,       \* the registries: registry id -> Registry.rules
    pend,       \* per goroutine: a registry call between its two lock sections
    evaluator,  \* the Evaluator: [registry, stopOnFirstMatch, defaultAction]
    opts,       \* the options NewEvaluator was given
    markerFile, \* pipelineblock: the content of the file at Manager.markerPath
    clock,      \* pipelineblock: the wall clock time.Now reads, in ticks
    environ,    \* pipelineblock: the value of KLAUDIUSH_CLEAR_PIPELINE_BLOCK
    mu,         \* the registries' locks: registry id -> Registry.mu
    ret         \* the last completed call and the value it returned

vars == <<cache, compiles, epochComp, clears, cpc, ctext, returned, calls,
          regs, pend, evaluator, opts, markerFile, clock, environ, mu, ret>>

cacheVars == <<cache, compiles, epochComp, clears, cpc, ctext, returned, calls>>
regVars == <<regs, pend, evaluator, opts>>
markerVars == <<markerFile, clock, environ>>

(***************************************************************************)
(* Bounds of the model.                                                    *)
(***************************************************************************)
MaxClears == 1      \* PatternCache.Clear calls explored
MaxCalls == 2       \* completed Get calls counted per text and epoch
MaxAddAll == 2      \* longest rule list handed to AddAll

Procs == {"g1", "g2"}

\* The nil pointer / nil interface value.
Nil == [kind |-> "nil"]

(***************************************************************************)
(* Strings.  Go compares and scans strings byte by byte; Bytes gives the   *)
(* byte sequence of every string the model uses.                           *)
(***************************************************************************)
Bytes(s) ==
    CASE s = "" -> <<>>
      [] s = "a" -> <<"a">>
      [] s = "b" -> <<"b">>
      [] s = "c" -> <<"c">>
      [] s = "main" -> <<"m", "a", "i", "n">>
      [] s = "dev" -> <<"d", "e", "v">>
      [] s = "domain" -> <<"d", "o", "m", "a", "i", "n">>
      [] s = "ma*" -> <<"m", "a", "*">>
      [] s = "^ma" -> <<"^", "m", "a">>
      [] s = "[invalid" -> <<"[", "i", "n", "v", "a", "l", "i", "d">>
      [] s = "[a" -> <<"[", "a">>
      [] s = "[b" -> <<"[", "b">>
      [] s = "[c" -> <<"[", "c">>
      [] s = "[d" -> <<"[", "d">>
      [] s = "origin" -> <<"o", "r", "i", "g", "i", "n">>
      [] s = "upstream" -> <<"u", "p", "s", "t", "r", "e", "a", "m">>
      [] s = ".*" -> <<".", "*">>
      [] s = "*" -> <<"*">>
      [] s = "git" -> <<"g", "i", "t">>
      [] s = "git.*" -> <<"g", "i", "t", ".", "*">>
      [] s = "git.push" -> <<"g", "i", "t", ".", "p", "u", "s", "h">>
      [] s = "git.commit" -> <<"g", "i", "t", ".", "c", "o", "m", "m", "i", "t">>
      [] s = "file.markdown" ->
            <<"f", "i", "l", "e", ".", "m", "a", "r", "k", "d", "o", "w", "n">>
      [] OTHER -> [i \in 1..Len(s) |-> SubSeq(s, i, i)]

\* Byte order of the characters that occur in rule names and patterns.
Code(ch) ==
    CASE ch = "*" -> 42
      [] ch = "[" -> 91
      [] ch = "^" -> 94
      [] ch = "a" -> 97
      [] ch = "b" -> 98
      [] ch = "c" -> 99
      [] ch = "d" -> 100
      [] ch = "e" -> 101
      [] ch = "g" -> 103
      [] ch = "i" -> 105
      [] ch = "l" -> 108
      [] ch = "m" -> 109
      [] ch = "n" -> 110
      [] ch = "o" -> 111
      [] ch = "p" -> 112
      [] ch = "r" -> 114
      [] ch = "s" -> 115
      [] ch = "t" -> 116
      [] ch = "u" -> 117
      [] ch = "v" -> 118

\* strings.Contains over byte sequences.
Contains(s, sub) ==
    \E i \in 0..(Len(s) - Len(sub)) :
        \A j \in 1..Len(sub) : s[i + j] = sub[j]

\* strings.HasPrefix over byte sequences.
HasPrefix(s, pre) ==
    /\ Len(pre) <= Len(s)
    /\ \A j \in 1..Len(pre) : s[j] = pre[j]

\* cmp.Compare on strings: -1, 0 or 1 by the first differing byte, a proper
\* prefix being the smaller string.
CompareStrings(x, y) ==
    LET bx == Bytes(x)
        by == Bytes(y)
        n == IF Len(bx) < Len(by) THEN Len(bx) ELSE Len(by)
        diff == {i \in 1..n : bx[i] # by[i]}
    IN  IF diff = {}
        THEN IF Len(bx) < Len(by) THEN -1
             ELSE IF Len(bx) > Len(by) THEN 1 ELSE 0
        ELSE LET k == CHOOSE i \in diff : \A j \in diff : i <= j
             IN  IF Code(bx[k]) < Code(by[k]) THEN -1 ELSE 1

\* Op applied to the value of e, which is computed once.
Bind(e, Op(_)) == CHOOSE r \in {Op(v) : v \in {e}} : TRUE

\* cmp.Compare on integers.
CompareInts(x, y) == IF x < y THEN -1 ELSE IF x > y THEN 1 ELSE 0

(***************************************************************************)
(* Pattern compilation (pattern.go).                                       *)
(***************************************************************************)
PatternTexts == {"main", "^ma", "[invalid", ".*", "[a", "[b", "[c", "[d"}

\* The texts the concurrent callers of the cache ask for.
CacheTexts == {"main", "^ma", "[invalid"}

\* Mutant: the eleven indicators the rules guide lists, without \s, \b, .*,
\* .+ and the escaped dot.
MutRegexIndicatorsEleven ==
    << <<"^">>, <<"$">>, <<"(", "?">>, <<"\\", "d">>, <<"\\", "w">>,
       <<"[">>, <<"]">>, <<"(">>, <<")">>, <<"|">>, <<"+">> >>

regexIndicators ==
    << <<"^">>, <<"$">>, <<"(", "?">>, <<"\\", "d">>, <<"\\", "w">>,
       <<"\\", "s">>, <<"\\", "b">>, <<"[">>, <<"]">>, <<"(">>, <<")">>,
       <<"|">>, <<"+">>, <<".", "*">>, <<".", "+">>, <<"\\", ".">> >>

DetectPatternType(pattern) ==
    IF \E i \in 1..Len(regexIndicators) :
           Contains(Bytes(pattern), regexIndicators[i])
    THEN "regex"
    ELSE "glob"

\* Both compilers (regexp.Compile, glob.Compile) reject a character class
\* that is opened and never closed, such as "[invalid".
ClassesClosed(s) ==
    \A i \in 1..Len(s) :
        s[i] = "[" => \E j \in (i + 1)..Len(s) : s[j] = "]"

\* NewGlobPattern: the compiled glob, or Nil with an error.  id tells one
\* compiled instance from another one of the same text.
NewGlobPattern(pattern, id) ==
    IF ClassesClosed(Bytes(pattern))
    THEN [pattern |-> [kind |-> "glob", pattern |-> pattern, id |-> id],
          err |-> Nil]
    ELSE [pattern |-> Nil, err |-> [text |-> pattern, id |-> id, from |-> "glob"]]

\* NewRegexPattern: the compiled regular expression, or Nil with an error.
NewRegexPattern(pattern, id) ==
    IF ClassesClosed(Bytes(pattern))
    THEN [pattern |-> [kind |-> "regex", pattern |-> pattern, id |-> id],
          err |-> Nil]
    ELSE [pattern |-> Nil, err |-> [text |-> pattern, id |-> id, from |-> "regexp"]]

\* Mutant: every text goes to the glob compiler.
MutCompilePatternGlob(pattern, id) == NewGlobPattern(pattern, id)

CompilePattern(pattern, id) ==
    IF DetectPatternType(pattern) = "regex"
    THEN NewRegexPattern(pattern, id)
    ELSE NewGlobPattern(pattern, id)

(***************************************************************************)
(* PatternCache (pattern.go).  Each lock section of Get is one step: the   *)
(* read-locked fast path, and the write-locked slow path.                  *)
(***************************************************************************)
NewPatternCache ==
    [patterns |-> [t \in PatternTexts |-> Nil],
     errors |-> [t \in PatternTexts |-> Nil]]

\* Lookup in both maps: the hit, or Nil for a miss (lines 151-159, 168-174).
Lookup(c, patternStr) ==
    IF c.patterns[patternStr] # Nil
    THEN [pattern |-> c.patterns[patternStr], err |-> Nil]
    ELSE IF c.errors[patternStr] # Nil
         THEN [pattern |-> Nil, err |-> c.errors[patternStr]]
         ELSE Nil

\* Mutant: no second look under the write lock.
MutSlowRecheckNone(c, patternStr) == Nil

\* Mutant: the second look consults the error map only.
MutSlowRecheckErrors(c, patternStr) ==
    IF c.errors[patternStr] # Nil
    THEN [pattern |-> Nil, err |-> c.errors[patternStr]]
    ELSE Nil

\* What the slow path finds under the write lock before it decides to compile.

SlowRecheck(c, patternStr) == Lookup(c, patternStr)

\* Mutant: a compile error is returned and not remembered.
MutSlowPathForgetsError(c, patternStr, id) ==
    LET hit == Lookup(c, patternStr)
        res == CompilePattern(patternStr, id)
    IN  IF hit # Nil
        THEN [cache |-> c, result |-> hit, compiled |-> FALSE]
        ELSE IF res.err # Nil
             THEN [cache |-> c, result |-> res, compiled |-> TRUE]
             ELSE [cache |-> [c EXCEPT !.patterns[patternStr] = res.pattern],
                   result |-> res, compiled |-> TRUE]

\* The slow path under the write lock: [cache, result, compiled].
SlowPath(c, patternStr, id) ==
    LET hit == SlowRecheck(c, patternStr)
        res == CompilePattern(patternStr, id)
    IN  IF hit # Nil
        THEN [cache |-> c, result |-> hit, compiled |-> FALSE]
        ELSE IF res.err # Nil
             THEN [cache |-> [c EXCEPT !.errors[patternStr] = res.err],
                   result |-> res, compiled |-> TRUE]
             ELSE [cache |-> [c EXCEPT !.patterns[patternStr] = res.pattern],
                   result |-> res, compiled |-> TRUE]

\* The bookkeeping of a completed Get.
Returned(t, result) ==
    /\ returned' = [returned EXCEPT ![t] = @ \cup {result}]
    /\ calls' = [calls EXCEPT ![t] = IF @ < MaxCalls THEN @ + 1 ELSE @]

\* Get, fast path hit: returns the cached pattern or the cached error.
GetFastHit(g, t) ==
    /\ cpc[g] = "idle"
    /\ Lookup(cache, t) # Nil
    /\ Returned(t, Lookup(cache, t))
    /\ UNCHANGED <<cache, compiles, epochComp, clears, cpc, ctext>>
    /\ UNCHANGED <<regVars, markerVars, mu>>
    /\ ret' = [op |-> "CacheGet", arg |-> t, via |-> "fast", val |-> Lookup(cache, t)]

\* Get, fast path miss: releases the read lock and heads for the write lock.
GetFastMiss(g, t) ==
    /\ cpc[g] = "idle"
    /\ Lookup(cache, t) = Nil
    /\ cpc' = [cpc EXCEPT ![g] = "slow"]
    /\ ctext' = [ctext EXCEPT ![g] = t]
    /\ UNCHANGED <<cache, compiles, epochComp, clears, returned, calls>>
    /\ UNCHANGED <<regVars, markerVars, mu>>
    /\ UNCHANGED ret

\* Get, slow path: re-check, compile, store, return.
GetSlow(g) ==
    /\ cpc[g] = "slow"
    /\ \E t \in {ctext[g]} : \E r \in {SlowPath(cache, ctext[g], compiles[ctext[g]] + 1)} :
           /\ cache' = r.cache
           /\ compiles' = [compiles EXCEPT ![t] = IF r.compiled THEN @ + 1 ELSE @]
           /\ epochComp' = [epochComp EXCEPT ![t] = IF r.compiled THEN @ + 1 ELSE @]
           /\ Returned(t, r.result)
           /\ ret' = [op |-> "CacheGet", arg |-> t,
                       via |-> IF r.compiled THEN "compile" ELSE "recheck",
                       val |-> r.result]
    /\ cpc' = [cpc EXCEPT ![g] = "idle"]
    /\ ctext' = [ctext EXCEPT ![g] = ""]
    /\ UNCHANGED clears
    /\ UNCHANGED <<regVars, markerVars, mu>>

\* Mutant: Clear replaces the map of compiled patterns only.
MutClearedKeepsErrors(c) ==
    [c EXCEPT !.patterns = [t \in PatternTexts |-> Nil]]

\* The cache after Clear: both maps are replaced by empty ones.
Cleared(c) ==
    [patterns |-> [t \in PatternTexts |-> Nil],
     errors |-> [t \in PatternTexts |-> Nil]]

\* PatternCache.Clear.
CacheClear ==
    /\ clears < MaxClears
    /\ cache' = Cleared(cache)
    /\ clears' = clears + 1
    /\ epochComp' = [t \in PatternTexts |-> 0]
    /\ returned' = [t \in PatternTexts |-> {}]
    /\ calls' = [t \in PatternTexts |-> 0]
    /\ UNCHANGED <<compiles, cpc, ctext>>
    /\ UNCHANGED <<regVars, markerVars, mu>>
    /\ ret' = [op |-> "CacheClear", arg |-> "", via |-> "", val |-> Nil]

\* Mutant: Size counts the cached errors as well.
MutCacheSizeCountsErrors(c) ==
    Cardinality({t \in PatternTexts : c.patterns[t] # Nil})
        + Cardinality({t \in PatternTexts : c.errors[t] # Nil})

\* PatternCache.Size: the number of compiled patterns.
CacheSize(c) == Cardinality({t \in PatternTexts : c.patterns[t] # Nil})

\* One sequential Get on the cache state K = [cache, compiles, epochComp]:
\* the fast path and, on a miss, the slow path right after it.
GetCall(K, t) ==
    LET hit == Lookup(K.cache, t)
        r == SlowPath(K.cache, t, K.compiles[t] + 1)
        res == IF hit # Nil THEN hit ELSE r.result
        did == hit = Nil /\ r.compiled
    IN  [K |-> [cache |-> IF hit # Nil THEN K.cache ELSE r.cache,
                compiles |-> [K.compiles EXCEPT ![t] = IF did THEN @ + 1 ELSE @],
                epochComp |-> [K.epochComp EXCEPT ![t] = IF did THEN @ + 1 ELSE @]],
         pattern |-> res.pattern,
         err |-> res.err]

\* GetCachedPattern: Get on the process-wide default cache.
GetCachedPattern(K, pattern) == GetCall(K, pattern)

(***************************************************************************)
(* Pattern.Match.  The glob texts of the model hold no wildcard, so a glob *)
(* matches the equal string; the regular expressions are an optional       *)
(* leading ^ anchor followed by a literal or by .*, which matches every    *)
(* string, the empty one included.                                         *)
(***************************************************************************)
GlobMatch(p, s) == Bytes(p.pattern) = Bytes(s)

RegexMatch(p, s) ==
    LET b == Bytes(p.pattern)
        anchored == Len(b) > 0 /\ b[1] = "^"
        body == IF anchored THEN Tail(b) ELSE b
    IN  IF body = <<".", "*">> THEN TRUE
        ELSE IF anchored THEN HasPrefix(Bytes(s), body)
        ELSE Contains(Bytes(s), body)

PatternMatch(p, s) ==
    IF p.kind = "regex" THEN RegexMatch(p, s) ELSE GlobMatch(p, s)

(***************************************************************************)
(* Matchers (matcher.go).  A MatchContext is [ValidatorType, GitContext,   *)
(* FileContext, Command, HookContext]; an absent context part is Nil.      *)
(***************************************************************************)
ValidatorAll == "*"

\* strings.EqualFold on the tool and event names of the model.
Lower(s) ==
    CASE s = "Bash" -> "bash"
      [] s = "BASH" -> "bash"
      [] s = "PreToolUse" -> "pretooluse"
      [] s = "pretooluse" -> "pretooluse"
      [] s = "PRETOOLUSE" -> "pretooluse"
      [] s = "Write" -> "write"
      [] s = "WRITE" -> "write"
      [] s = "PostToolUse" -> "posttooluse"
      [] OTHER -> s

EqualFold(x, y) == Lower(x) = Lower(y)

RepoPatternMatch(m, ctx) ==
    IF ctx.GitContext = Nil THEN FALSE
    ELSE IF ctx.GitContext.RepoRoot = "" THEN FALSE
    ELSE PatternMatch(m.pattern, ctx.GitContext.RepoRoot)

RemoteMatch(m, ctx) ==
    IF ctx.GitContext = Nil THEN FALSE
    ELSE ctx.GitContext.Remote = m.remote

\* Mutant: a missing git context is read as an empty branch name.
MutBranchPatternMatchNoGit(m, ctx) ==
    IF ctx.GitContext = Nil THEN PatternMatch(m.pattern, "")
    ELSE IF ctx.GitContext.Branch = "" THEN FALSE
    ELSE PatternMatch(m.pattern, ctx.GitContext.Branch)

BranchPatternMatch(m, ctx) ==
    IF ctx.GitContext = Nil THEN FALSE
    ELSE IF ctx.GitContext.Branch = "" THEN FALSE
    ELSE PatternMatch(m.pattern, ctx.GitContext.Branch)

\* Mutant: the hook context's file path is preferred to the file context's.
MutFilePatternMatchHookFirst(m, ctx) ==
    IF ctx.HookContext # Nil
    THEN PatternMatch(m.pattern, ctx.HookContext.FilePath)
    ELSE IF ctx.FileContext = Nil THEN FALSE
    ELSE IF ctx.FileContext.Path = "" THEN FALSE
    ELSE PatternMatch(m.pattern, ctx.FileContext.Path)

FilePatternMatch(m, ctx) ==
    IF ctx.FileContext = Nil \/ (ctx.FileContext # Nil /\ ctx.FileContext.Path = "")
    THEN IF ctx.HookContext # Nil
         THEN PatternMatch(m.pattern, ctx.HookContext.FilePath)
         ELSE FALSE
    ELSE PatternMatch(m.pattern, ctx.FileContext.Path)

ContentPatternMatch(m, ctx) ==
    IF ctx.FileContext = Nil \/ (ctx.FileContext # Nil /\ ctx.FileContext.Content = "")
    THEN IF ctx.HookContext # Nil
         THEN PatternMatch(m.pattern, ctx.HookContext.Content)
         ELSE FALSE
    ELSE PatternMatch(m.pattern, ctx.FileContext.Content)

CommandPatternMatch(m, ctx) ==
    IF ctx.Command # ""
    THEN PatternMatch(m.pattern, ctx.Command)
    ELSE IF ctx.HookContext # Nil
         THEN PatternMatch(m.pattern, ctx.HookContext.Command)
         ELSE FALSE

\* Mutant: no check for an empty validator type in the context.
MutValidatorTypeMatchNoEmptyCheck(m, ctx) ==
    IF m.validatorType = ValidatorAll THEN TRUE
    ELSE IF ctx.ValidatorType = m.validatorType THEN TRUE
    ELSE LET pattern == Bytes(m.validatorType)
             target == Bytes(ctx.ValidatorType)
             n == Len(pattern)
         IN  IF n >= 2 /\ pattern[n - 1] = "." /\ pattern[n] = "*"
             THEN HasPrefix(target, SubSeq(pattern, 1, n - 1))
             ELSE FALSE

ValidatorTypeMatch(m, ctx) ==
    IF m.validatorType = ValidatorAll THEN TRUE
    ELSE IF ctx.ValidatorType = "" THEN FALSE
    ELSE IF ctx.ValidatorType = m.validatorType THEN TRUE
    ELSE LET pattern == Bytes(m.validatorType)
             target == Bytes(ctx.ValidatorType)
             n == Len(pattern)
         IN  IF n >= 2 /\ pattern[n - 1] = "." /\ pattern[n] = "*"
             THEN HasPrefix(target, SubSeq(pattern, 1, n - 1))
             ELSE FALSE

\* Mutant: the tool name is compared letter for letter, case included.
MutToolTypeMatchExact(m, ctx) ==
    IF ctx.HookContext = Nil THEN FALSE
    ELSE ctx.HookContext.ToolName = m.toolType

ToolTypeMatch(m, ctx) ==
    IF ctx.HookContext = Nil THEN FALSE
    ELSE EqualFold(ctx.HookContext.ToolName, m.toolType)

EventTypeMatch(m, ctx) ==
    IF ctx.HookContext = Nil THEN FALSE
    ELSE EqualFold(ctx.HookContext.EventType, m.eventType)

\* Mutant: a composite with no children matches nothing.
MutCompositeResultEmptyFalse(op, results) ==
    IF Len(results) = 0 THEN FALSE
    ELSE CASE op = "AND" -> \A i \in 1..Len(results) : results[i]
           [] op = "OR" -> \E i \in 1..Len(results) : results[i]
           [] op = "NOT" -> ~results[1]
           [] OTHER -> FALSE

\* CompositeMatcher.Match, given the results of the children's Match in
\* order; the loops return at the first child that decides, which shows in
\* nothing but time since Match has no effect.
CompositeResult(op, results) ==
    IF Len(results) = 0 THEN TRUE
    ELSE CASE op = "AND" -> \A i \in 1..Len(results) : results[i]
           [] op = "OR" -> \E i \in 1..Len(results) : results[i]
           [] op = "NOT" -> ~results[1]
           [] OTHER -> FALSE

RECURSIVE Match(_, _)
\* Matcher.Match, dispatched on the matcher's dynamic type.
Match(m, ctx) ==
    CASE m.kind = "repo_pattern" -> RepoPatternMatch(m, ctx)
      [] m.kind = "remote" -> RemoteMatch(m, ctx)
      [] m.kind = "branch_pattern" -> BranchPatternMatch(m, ctx)
      [] m.kind = "file_pattern" -> FilePatternMatch(m, ctx)
      [] m.kind = "content_pattern" -> ContentPatternMatch(m, ctx)
      [] m.kind = "command_pattern" -> CommandPatternMatch(m, ctx)
      [] m.kind = "validator_type" -> ValidatorTypeMatch(m, ctx)
      [] m.kind = "tool_type" -> ToolTypeMatch(m, ctx)
      [] m.kind = "event_type" -> EventTypeMatch(m, ctx)
      [] m.kind = "always" -> TRUE
      [] m.kind = "never" -> FALSE
      [] m.kind = "composite" ->
            CompositeResult(m.op, [i \in 1..Len(m.matchers) |->
                                      Match(m.matchers[i], ctx)])

(***************************************************************************)
(* Nil pointers.  A Go method panics when it reads a field of a nil        *)
(* pointer.  For each Match the operators below list the pointers of the   *)
(* context the code reads, each behind the guards the code puts in front   *)
(* of the read, and answer whether one of them is nil.                     *)
(***************************************************************************)
IsNil(p) == p = Nil

RepoPatternPanics(m, ctx) ==
    IF ctx.GitContext = Nil THEN FALSE ELSE IsNil(ctx.GitContext)

RemotePanics(m, ctx) ==
    IF ctx.GitContext = Nil THEN FALSE ELSE IsNil(ctx.GitContext)

BranchPatternPanics(m, ctx) ==
    IF ctx.GitContext = Nil THEN FALSE ELSE IsNil(ctx.GitContext)

\* The file and content matchers: the file context is read behind its nil
\* test, the hook context behind its own on the fallback path.
FilePatternPanics(m, ctx) ==
    IF ctx.FileContext = Nil
    THEN IF ctx.HookContext # Nil THEN IsNil(ctx.HookContext) ELSE FALSE
    ELSE IF ctx.FileContext.Path = ""
    THEN IF ctx.HookContext # Nil THEN IsNil(ctx.HookContext) ELSE FALSE
    ELSE IsNil(ctx.FileContext)

ContentPatternPanics(m, ctx) ==
    IF ctx.FileContext = Nil
    THEN IF ctx.HookContext # Nil THEN IsNil(ctx.HookContext) ELSE FALSE
    ELSE IF ctx.FileContext.Content = ""
    THEN IF ctx.HookContext # Nil THEN IsNil(ctx.HookContext) ELSE FALSE
    ELSE IsNil(ctx.FileContext)

CommandPatternPanics(m, ctx) ==
    IF ctx.Command # "" THEN FALSE
    ELSE IF ctx.HookContext # Nil THEN IsNil(ctx.HookContext) ELSE FALSE

\* Mutant: the tool name is read without the test for a nil hook context.
MutToolTypePanicsNoGuard(m, ctx) == IsNil(ctx.HookContext)

ToolTypePanics(m, ctx) ==
    IF ctx.HookContext = Nil THEN FALSE ELSE IsNil(ctx.HookContext)

EventTypePanics(m, ctx) ==
    IF ctx.HookContext = Nil THEN FALSE ELSE IsNil(ctx.HookContext)

RECURSIVE MatchPanics(_, _)
RECURSIVE CompositePanics(_, _, _)
\* CompositeMatcher.Match from child i on: the children are asked in order
\* until one decides, a false one under AND, a true one under OR.
CompositePanics(m, ctx, i) ==
    IF i > Len(m.matchers) THEN FALSE
    ELSE IF IsNil(m.matchers[i]) THEN TRUE
    ELSE IF MatchPanics(m.matchers[i], ctx) THEN TRUE
    ELSE IF m.op = "NOT" THEN FALSE
    ELSE IF (m.op = "AND") # Match(m.matchers[i], ctx) THEN FALSE
    ELSE CompositePanics(m, ctx, i + 1)

\* Whether Match(m, ctx) reads through a nil pointer.
MatchPanics(m, ctx) ==
    CASE m.kind = "repo_pattern" -> RepoPatternPanics(m, ctx)
      [] m.kind = "remote" -> RemotePanics(m, ctx)
      [] m.kind = "branch_pattern" -> BranchPatternPanics(m, ctx)
      [] m.kind = "file_pattern" -> FilePatternPanics(m, ctx)
      [] m.kind = "content_pattern" -> ContentPatternPanics(m, ctx)
      [] m.kind = "command_pattern" -> CommandPatternPanics(m, ctx)
      [] m.kind = "validator_type" -> FALSE
      [] m.kind = "tool_type" -> ToolTypePanics(m, ctx)
      [] m.kind = "event_type" -> EventTypePanics(m, ctx)
      [] m.kind = "always" -> FALSE
      [] m.kind = "never" -> FALSE
      [] m.kind = "composite" -> CompositePanics(m, ctx, 1)

\* Matcher.Name, by the matcher's dynamic type.
Name(m) ==
    CASE m.kind = "repo_pattern" -> "repo_pattern:" \o m.pattern.pattern
      [] m.kind = "remote" -> "remote:" \o m.remote
      [] m.kind = "branch_pattern" -> "branch_pattern:" \o m.pattern.pattern
      [] m.kind = "file_pattern" -> "file_pattern:" \o m.pattern.pattern
      [] m.kind = "content_pattern" -> "content_pattern:" \o m.pattern.pattern
      [] m.kind = "command_pattern" -> "command_pattern:" \o m.pattern.pattern
      [] m.kind = "validator_type" -> "validator_type:" \o m.validatorType
      [] m.kind = "tool_type" -> "tool_type:" \o m.toolType
      [] m.kind = "event_type" -> "event_type:" \o m.eventType
      [] m.kind = "always" -> "always"
      [] m.kind = "never" -> "never"
      [] m.kind = "composite" ->
            CASE m.op = "AND" -> "AND"
              [] m.op = "OR" -> "OR"
              [] m.op = "NOT" -> "NOT"
              [] OTHER -> "UNKNOWN"

NewValidatorTypeMatcher(validatorType) ==
    [kind |-> "validator_type", validatorType |-> validatorType]

NewRemoteMatcher(remote) == [kind |-> "remote", remote |-> remote]

NewToolTypeMatcher(toolType) == [kind |-> "tool_type", toolType |-> toolType]

NewEventTypeMatcher(eventType) == [kind |-> "event_type", eventType |-> eventType]

NewAndMatcher(matchers) == [kind |-> "composite", op |-> "AND", matchers |-> matchers]

NewOrMatcher(matchers) == [kind |-> "composite", op |-> "OR", matchers |-> matchers]

NewNotMatcher(matcher) == [kind |-> "composite", op |-> "NOT", matchers |-> <<matcher>>]

AlwaysMatcher == [kind |-> "always"]

NeverMatcher == [kind |-> "never"]

\* The factories of the cached pattern matchers (NewRepoPatternMatcher,
\* NewBranchPatternMatcher, NewFilePatternMatcher, NewCommandPatternMatcher):
\* [matcher, err, K].
NewCachedPatternMatcher(kind, patternStr, K) ==
    Bind(GetCachedPattern(K, patternStr),
         LAMBDA g : IF g.err # Nil
                    THEN [matcher |-> Nil, err |-> g.err, K |-> g.K]
                    ELSE [matcher |-> [kind |-> kind, pattern |-> g.pattern],
                          err |-> Nil, K |-> g.K])

\* Mutant: the content pattern is taken from the pattern cache.
MutNewContentPatternMatcherCached(patternStr, K) ==
    NewCachedPatternMatcher("content_pattern", patternStr, K)

\* Mutant: the content pattern's type is detected as the other patterns' is.
MutNewContentPatternMatcherDetects(patternStr, K) ==
    LET c == CompilePattern(patternStr, 0)
    IN  IF c.err # Nil
        THEN [matcher |-> Nil, err |-> c.err, K |-> K]
        ELSE [matcher |-> [kind |-> "content_pattern", pattern |-> c.pattern],
              err |-> Nil, K |-> K]

\* NewContentPatternMatcher: always a regular expression, never cached.
NewContentPatternMatcher(patternStr, K) ==
    LET c == NewRegexPattern(patternStr, 0)
    IN  IF c.err # Nil
        THEN [matcher |-> Nil, err |-> c.err, K |-> K]
        ELSE [matcher |-> [kind |-> "content_pattern", pattern |-> c.pattern],
              err |-> Nil, K |-> K]

\* Mutant: a factory that fails leaves the cache as it found it.
MutAddFactoryResultNoTrace(b, f) ==
    IF f.err # Nil
    THEN [b EXCEPT !.err = f.err]
    ELSE [b EXCEPT !.matchers = Append(@, f.matcher), !.K = f.K]

\* matcherBuilder b = [matchers, err, K].
\* What addPatternMatcher does with the factory's result f.
addFactoryResult(b, f) ==
    IF f.err # Nil
    THEN [b EXCEPT !.err = f.err, !.K = f.K]
    ELSE [b EXCEPT !.matchers = Append(@, f.matcher), !.K = f.K]

\* Mutant: a pattern is compiled also after an earlier one failed, so the
\* error of the last failing pattern is the one kept.
MutAddPatternMatcherNoErrCheck(b, pattern, kind) ==
    IF pattern = "" THEN b
    ELSE IF kind = "content_pattern"
         THEN Bind(NewContentPatternMatcher(pattern, b.K),
                   LAMBDA f : addFactoryResult(b, f))
         ELSE Bind(NewCachedPatternMatcher(kind, pattern, b.K),
                   LAMBDA f : addFactoryResult(b, f))

addPatternMatcher(b, pattern, kind) ==
    IF b.err # Nil \/ pattern = "" THEN b
    ELSE IF kind = "content_pattern"
         THEN Bind(NewContentPatternMatcher(pattern, b.K),
                   LAMBDA f : addFactoryResult(b, f))
         ELSE Bind(NewCachedPatternMatcher(kind, pattern, b.K),
                   LAMBDA f : addFactoryResult(b, f))

\* Mutant: one condition is wrapped in an AND matcher as several are.
MutBuilderResultAlwaysAnd(b) ==
    IF b.err # Nil THEN [matcher |-> Nil, err |-> b.err, K |-> b.K]
    ELSE IF Len(b.matchers) = 0 THEN [matcher |-> Nil, err |-> Nil, K |-> b.K]
    ELSE [matcher |-> NewAndMatcher(b.matchers), err |-> Nil, K |-> b.K]

builderResult(b) ==
    IF b.err # Nil THEN [matcher |-> Nil, err |-> b.err, K |-> b.K]
    ELSE IF Len(b.matchers) = 0 THEN [matcher |-> Nil, err |-> Nil, K |-> b.K]
    ELSE IF Len(b.matchers) = 1 THEN [matcher |-> b.matchers[1], err |-> Nil, K |-> b.K]
    ELSE [matcher |-> NewAndMatcher(b.matchers), err |-> Nil, K |-> b.K]

\* The simple matchers of BuildMatcher (lines 555-569), in the code's order;
\* addSimple appends each, b.err being nil until a pattern is compiled.
SimpleMatchers(match) ==
    (IF match.ValidatorType # ""
     THEN <<NewValidatorTypeMatcher(match.ValidatorType)>> ELSE <<>>)
    \o (IF match.Remote # "" THEN <<NewRemoteMatcher(match.Remote)>> ELSE <<>>)
    \o (IF match.ToolType # "" THEN <<NewToolTypeMatcher(match.ToolType)>> ELSE <<>>)
    \o (IF match.EventType # "" THEN <<NewEventTypeMatcher(match.EventType)>> ELSE <<>>)

\* The pattern fields of BuildMatcher (lines 572-576), in the code's order.
PatternFields(match) ==
    << <<match.RepoPattern, "repo_pattern">>,
       <<match.BranchPattern, "branch_pattern">>,
       <<match.FilePattern, "file_pattern">>,
       <<match.ContentPattern, "content_pattern">>,
       <<match.CommandPattern, "command_pattern">> >>

RECURSIVE addPatternMatchers(_, _, _)
\* addPatternMatcher for the fields from index i on.
addPatternMatchers(b, fields, i) ==
    IF i > Len(fields) THEN b
    ELSE Bind(addPatternMatcher(b, fields[i][1], fields[i][2]),
              LAMBDA b2 : addPatternMatchers(b2, fields, i + 1))

\* BuildMatcher: [matcher, err, K]; matcher Nil and err Nil for no condition.
BuildMatcher(match, K) ==
    IF match = Nil THEN [matcher |-> Nil, err |-> Nil, K |-> K]
    ELSE Bind(addPatternMatchers([matchers |-> SimpleMatchers(match), err |-> Nil, K |-> K],
                                 PatternFields(match), 1),
              LAMBDA b : builderResult(b))

(***************************************************************************)
(* Registry (registry.go).  Registry.rules is a sequence of CompiledRule   *)
(* [Rule, Matcher]; a Rule is [Name, Enabled, Priority, Match, Action].    *)
(***************************************************************************)
NewRegistry == <<>>

\* The zero sync.RWMutex of a new Registry: no writer (w), no readers (r) and
\* no goroutine blocked in Lock (waiting).
NewRWMutex == [w |-> "", r |-> {}, waiting |-> {}]

\* Mutant: ties on priority are broken by descending name.
MutRuleCmpNameDesc(a, b) ==
    LET result == CompareInts(b.Rule.Priority, a.Rule.Priority)
    IN  IF result # 0 THEN result
        ELSE CompareStrings(b.Rule.Name, a.Rule.Name)

\* Mutant: rules of equal priority compare equal, whatever their names.
MutRuleCmpPriorityOnly(a, b) == CompareInts(b.Rule.Priority, a.Rule.Priority)

\* The comparison function of sortRulesLocked.
RuleCmp(a, b) ==
    LET result == CompareInts(b.Rule.Priority, a.Rule.Priority)
    IN  IF result # 0 THEN result
        ELSE CompareStrings(a.Rule.Name, b.Rule.Name)

\* x placed into the sorted sequence s, after the elements that do not
\* compare greater than it.
SortedInsert(s, x) ==
    LET before == {i \in 1..Len(s) : \A j \in 1..i : RuleCmp(s[j], x) <= 0}
        k == Cardinality(before)
    IN  SubSeq(s, 1, k) \o <<x>> \o SubSeq(s, k + 1, Len(s))

RECURSIVE SortFunc(_)
\* slices.SortFunc with RuleCmp.
SortFunc(s) ==
    IF Len(s) <= 1 THEN s
    ELSE Bind(SortFunc(SubSeq(s, 1, Len(s) - 1)),
              LAMBDA sorted : SortedInsert(sorted, s[Len(s)]))

\* Mutant: the list is left as the caller built it.
MutSortNone(rules) == rules

sortRulesLocked(rules) == SortFunc(rules)

\* Mutant: a rule without conditions is given the matcher that never matches.
MutCompiledNever(rule, m) ==
    IF m.err # Nil
    THEN [err |-> [msg |-> "failed to compile rule matcher", cause |-> m.err],
          compiled |-> Nil, K |-> m.K]
    ELSE [err |-> Nil,
          compiled |-> [Rule |-> rule,
                        Matcher |-> IF m.matcher = Nil THEN NeverMatcher
                                    ELSE m.matcher],
          K |-> m.K]

\* The CompiledRule Add stores for rule, given BuildMatcher's result m.
Compiled(rule, m) ==
    IF m.err # Nil
    THEN [err |-> [msg |-> "failed to compile rule matcher", cause |-> m.err],
          compiled |-> Nil, K |-> m.K]
    ELSE [err |-> Nil,
          compiled |-> [Rule |-> rule,
                        Matcher |-> IF m.matcher = Nil THEN AlwaysMatcher
                                    ELSE m.matcher],
          K |-> m.K]

\* Add up to the lock (lines 210-231): validation and BuildMatcher.
\* [err, compiled, K]; err is Nil on success.
AddPrepare(rule, K) ==
    IF rule = Nil
    THEN [err |-> [msg |-> "rule cannot be nil"], compiled |-> Nil, K |-> K]
    ELSE IF rule.Name = ""
    THEN [err |-> [msg |-> "rule name cannot be empty"], compiled |-> Nil, K |-> K]
    ELSE IF rule.Action = Nil
    THEN [err |-> [msg |-> "rule action cannot be nil"], compiled |-> Nil, K |-> K]
    ELSE Bind(BuildMatcher(rule.Match, K), LAMBDA m : Compiled(rule, m))

\* The index of the first entry named name, 0 when there is none.
IndexOfName(rules, name) ==
    LET S == {i \in 1..Len(rules) : rules[i].Rule.Name = name}
    IN  IF S = {} THEN 0 ELSE CHOOSE i \in S : \A j \in S : i <= j

\* Mutant: no check for an entry of the same name.
MutAddLockedAppend(rules, compiled) == sortRulesLocked(Append(rules, compiled))

\* Add under the write lock (lines 233-258).
AddLocked(rules, compiled) ==
    LET i == IndexOfName(rules, compiled.Rule.Name)
    IN  IF i # 0
        THEN sortRulesLocked([rules EXCEPT ![i] = compiled])
        ELSE sortRulesLocked(Append(rules, compiled))

\* Mutant: the hole is filled with the last entry instead of closing the gap.
MutRemoveSwap(rules, name) ==
    LET i == IndexOfName(rules, name)
        n == Len(rules)
    IN  IF i # 0
        THEN [rules |-> IF i = n THEN SubSeq(rules, 1, n - 1)
                        ELSE SubSeq([rules EXCEPT ![i] = rules[n]], 1, n - 1),
              found |-> TRUE]
        ELSE [rules |-> rules, found |-> FALSE]

\* Remove: [rules, found].
Remove(rules, name) ==
    LET i == IndexOfName(rules, name)
    IN  IF i # 0
        THEN [rules |-> SubSeq(rules, 1, i - 1) \o SubSeq(rules, i + 1, Len(rules)),
              found |-> TRUE]
        ELSE [rules |-> rules, found |-> FALSE]

Get(rules, name) ==
    LET i == IndexOfName(rules, name)
    IN  IF i # 0 THEN rules[i] ELSE Nil

GetAll(rules) == rules

IsEnabled(compiled) == compiled.Rule.Enabled

GetEnabled(rules) == SelectSeq(rules, IsEnabled)

Size(rules) == Len(rules)

Clear(rules) == <<>>

\* The names a rule of the model can carry.
Names == {"a", "b", "c"}

\* Merge's map from rule name to index; a later entry of the same name
\* overwrites an earlier one.  0 stands for an absent key.
ExistingMap(rules) ==
    [n \in Names |->
        LET S == {i \in 1..Len(rules) : rules[i].Rule.Name = n}
        IN  IF S = {} THEN 0 ELSE CHOOSE i \in S : \A j \in S : j <= i]

\* Mutant: Merge appends every source rule, whatever the receiver holds.
MutMergeStepAppend(S, srcRule) ==
    [rules |-> Append(S.rules, srcRule), existing |-> S.existing]

\* Mutant: a name the receiver already holds keeps the receiver's rule.
MutMergeStepKeepExisting(S, srcRule) ==
    IF S.existing[srcRule.Rule.Name] # 0 THEN S
    ELSE [rules |-> Append(S.rules, srcRule),
          existing |-> [S.existing EXCEPT ![srcRule.Rule.Name] = Len(S.rules) + 1]]

\* One turn of Merge's loop: S = [rules, existing] after srcRule.
MergeStep(S, srcRule) ==
    LET idx == S.existing[srcRule.Rule.Name]
    IN  IF idx # 0
        THEN [rules |-> [S.rules EXCEPT ![idx] = srcRule], existing |-> S.existing]
        ELSE [rules |-> Append(S.rules, srcRule),
              existing |-> [S.existing EXCEPT ![srcRule.Rule.Name] = Len(S.rules) + 1]]

RECURSIVE MergeLoop(_, _, _)
\* The loop over sourceRules (lines 383-392), from index k on.
MergeLoop(S, sourceRules, k) ==
    IF k > Len(sourceRules) THEN S.rules
    ELSE Bind(MergeStep(S, sourceRules[k]),
              LAMBDA S2 : MergeLoop(S2, sourceRules, k + 1))

\* Merge under the receiver's write lock (lines 373-394); sourceRules is the
\* copy taken under the source's read lock.
MergeLocked(rules, sourceRules) ==
    sortRulesLocked(MergeLoop([rules |-> rules, existing |-> ExistingMap(rules)],
                              sourceRules, 1))

\* MergeRules' comparison function, on uncompiled rules (lines 417-423).
RawRuleCmp(a, b) ==
    IF CompareInts(b.Priority, a.Priority) # 0
    THEN CompareInts(b.Priority, a.Priority)
    ELSE CompareStrings(a.Name, b.Name)

RawSortedInsert(s, x) ==
    LET before == {i \in 1..Len(s) : RawRuleCmp(s[i], x) <= 0}
        k == IF before = {} THEN 0 ELSE CHOOSE i \in before : \A j \in before : j <= i
    IN  SubSeq(s, 1, k) \o <<x>> \o SubSeq(s, k + 1, Len(s))

RECURSIVE RawSortFunc(_)
\* slices.SortFunc with RawRuleCmp.
RawSortFunc(s) ==
    IF Len(s) = 0 THEN <<>>
    ELSE Bind(RawSortFunc(SubSeq(s, 1, Len(s) - 1)),
              LAMBDA t : RawSortedInsert(t, s[Len(s)]))

\* Mutant: a name of base keeps base's rule.
MutMergedMapBaseWins(base, override) ==
    LET all == override \o base
    IN  [n \in {all[i].Name : i \in 1..Len(all)} |->
            all[CHOOSE i \in 1..Len(all) :
                    all[i].Name = n /\ \A j \in 1..Len(all) : all[j].Name = n => j <= i]]

\* MergeRules' map (lines 401-409): base's rules by name, then override's over
\* them; a later rule of a name replaces an earlier one.
MergedMap(base, override) ==
    LET all == base \o override
    IN  [n \in {all[i].Name : i \in 1..Len(all)} |->
            all[CHOOSE i \in 1..Len(all) :
                    all[i].Name = n /\ \A j \in 1..Len(all) : all[j].Name = n => j <= i]]

\* MergeRules.  order is the order in which the range loop over the map
\* (lines 411-414) meets the names, which Go leaves open.
MergeRules(base, override, order) ==
    Bind(MergedMap(base, override),
         LAMBDA merged :
             RawSortFunc([i \in 1..Cardinality(DOMAIN merged) |->
                 merged[SelectSeq(order, LAMBDA n : n \in DOMAIN merged)[i]]]))

(***************************************************************************)
(* Evaluator (evaluator.go).                                               *)
(***************************************************************************)
NilRegistry == ""

WithStopOnFirstMatch(stop) == [opt |-> "stop", stop |-> stop]

WithDefaultAction(action) == [opt |-> "default", action |-> action]

ApplyOption(e, o) ==
    IF o.opt = "stop" THEN [e EXCEPT !.stopOnFirstMatch = o.stop]
    ELSE [e EXCEPT !.defaultAction = o.action]

RECURSIVE ApplyOptions(_, _)
ApplyOptions(e, os) ==
    IF Len(os) = 0 THEN e
    ELSE ApplyOptions(ApplyOption(e, os[1]), Tail(os))

\* The default action NewEvaluator starts from.
DefaultAction == "allow"

NewEvaluator(registry, os) ==
    ApplyOptions([registry |-> registry, stopOnFirstMatch |-> TRUE,
                  defaultAction |-> DefaultAction], os)

\* Mutant: the unmatched result always allows.
MutUnmatchedAllow(e) ==
    [Matched |-> FALSE, Rule |-> Nil, Action |-> "allow",
     Message |-> "", Reference |-> ""]

Unmatched(e) ==
    [Matched |-> FALSE, Rule |-> Nil, Action |-> e.defaultAction,
     Message |-> "", Reference |-> ""]

ResultOf(compiled) ==
    [Matched |-> TRUE, Rule |-> compiled.Rule, Action |-> compiled.Rule.Action.Type,
     Message |-> compiled.Rule.Action.Message,
     Reference |-> compiled.Rule.Action.Reference]

\* Mutant: the last matching rule wins.
MutFirstMatchLast(rules, ctx) ==
    LET S == {i \in 1..Len(rules) : Match(rules[i].Matcher, ctx)}
    IN  IF S = {} THEN 0 ELSE CHOOSE i \in S : \A j \in S : j <= i

\* The index of the first rule of the list whose matcher matches, 0 for none.
FirstMatch(rules, ctx) ==
    LET S == {i \in 1..Len(rules) : Match(rules[i].Matcher, ctx)}
    IN  IF S = {} THEN 0 ELSE CHOOSE i \in S : \A j \in S : i <= j

\* Mutant: without stop-on-first-match the loop runs on and the last match wins.
MutEvaluateReadsStop(e, R, ctx) ==
    IF e.registry = NilRegistry THEN Unmatched(e)
    ELSE LET rules == GetEnabled(R[e.registry])
             i == IF e.stopOnFirstMatch THEN FirstMatch(rules, ctx)
                  ELSE MutFirstMatchLast(rules, ctx)
         IN  IF i # 0 THEN ResultOf(rules[i]) ELSE Unmatched(e)

\* Evaluate over the registries R (registry id -> rules).
Evaluate(e, R, ctx) ==
    IF e.registry = NilRegistry THEN Unmatched(e)
    ELSE LET rules == GetEnabled(R[e.registry])
             i == FirstMatch(rules, ctx)
         IN  IF Len(rules) = 0 THEN Unmatched(e)
             ELSE IF i # 0 THEN ResultOf(rules[i])
             ELSE Unmatched(e)

\* Mutant: the loop keeps going after a match, so the last match wins.
MutEvaluateRulesLast(e, rules, ctx) ==
    LET S == {i \in 1..Len(rules) : Match(rules[i].Matcher, ctx)}
    IN  IF S = {} THEN Unmatched(e)
        ELSE ResultOf(rules[CHOOSE i \in S : \A j \in S : j <= i])

\* Evaluate from line 59 on, over the list GetEnabled returned.
EvaluateRules(e, rules, ctx) ==
    IF Len(rules) = 0 THEN Unmatched(e)
    ELSE LET i == FirstMatch(rules, ctx)
         IN  IF i # 0 THEN ResultOf(rules[i]) ELSE Unmatched(e)

\* Mutant: the walk stops at the first match, as Evaluate's does.
MutEvaluateAllFirstOnly(e, R, ctx) ==
    IF e.registry = NilRegistry THEN <<>>
    ELSE LET rules == GetEnabled(R[e.registry])
             i == FirstMatch(rules, ctx)
         IN  IF i = 0 THEN <<>> ELSE <<ResultOf(rules[i])>>

\* Mutant: the walk includes the disabled rules.
MutEvaluateAllUnfiltered(e, R, ctx) ==
    IF e.registry = NilRegistry THEN <<>>
    ELSE LET matching == SelectSeq(R[e.registry],
                                   LAMBDA compiled : Match(compiled.Matcher, ctx))
         IN  [i \in 1..Len(matching) |-> ResultOf(matching[i])]

\* EvaluateAll over the registries R: the results of the matching enabled
\* rules in list order; a nil slice is the empty sequence.
EvaluateAll(e, R, ctx) ==
    IF e.registry = NilRegistry THEN <<>>
    ELSE LET rules == GetEnabled(R[e.registry])
             matching == SelectSeq(rules, LAMBDA compiled : Match(compiled.Matcher, ctx))
         IN  IF Len(rules) = 0 THEN <<>>
             ELSE [i \in 1..Len(matching) |-> ResultOf(matching[i])]

\* The context FilterByValidator matches validator types against (lines 151-153).
ValidatorContext(validatorType) ==
    [ValidatorType |-> validatorType, GitContext |-> Nil, FileContext |-> Nil,
     Command |-> "", HookContext |-> Nil]

\* Mutant: the rule's whole matcher is asked instead of its validator type.
MutFilterByValidatorWholeMatcher(e, R, validatorType) ==
    IF e.registry = NilRegistry THEN <<>>
    ELSE SelectSeq(GetEnabled(R[e.registry]),
                   LAMBDA compiled :
                       Match(compiled.Matcher, ValidatorContext(validatorType)))

\* Whether FilterByValidator keeps the rule (lines 159-169).
FilterKeeps(compiled, validatorType) ==
    IF compiled.Rule.Match = Nil THEN TRUE
    ELSE IF compiled.Rule.Match.ValidatorType = "" THEN TRUE
    ELSE Match(NewValidatorTypeMatcher(compiled.Rule.Match.ValidatorType),
               ValidatorContext(validatorType))

\* FilterByValidator over the registries R.
FilterByValidator(e, R, validatorType) ==
    IF e.registry = NilRegistry THEN <<>>
    ELSE SelectSeq(GetEnabled(R[e.registry]),
                   LAMBDA compiled : FilterKeeps(compiled, validatorType))

\* FindMatchingRules over the registries R: the matching enabled rules in
\* list order; a nil slice is the empty sequence.
FindMatchingRules(e, R, ctx) ==
    IF e.registry = NilRegistry THEN <<>>
    ELSE LET rules == GetEnabled(R[e.registry])
             matching == SelectSeq(rules, LAMBDA compiled : Match(compiled.Matcher, ctx))
         IN  [i \in 1..Len(matching) |-> matching[i].Rule]

RECURSIVE WalkPanics(_, _, _, _, _)
\* The loop over the enabled rules from index i on, as Evaluate (stop at the
\* first match, the rule's action read), EvaluateAll (no stop, the action
\* read) and FindMatchingRules (no stop, the action not read) run it:
\* whether it reads through a nil matcher, rule or action.
WalkPanics(rules, ctx, i, stop, readsAction) ==
    IF i > Len(rules) THEN FALSE
    ELSE IF IsNil(rules[i].Matcher) THEN TRUE
    ELSE IF MatchPanics(rules[i].Matcher, ctx) THEN TRUE
    ELSE IF ~Match(rules[i].Matcher, ctx)
         THEN WalkPanics(rules, ctx, i + 1, stop, readsAction)
    ELSE IF readsAction /\ IsNil(rules[i].Rule) THEN TRUE
    ELSE IF readsAction /\ IsNil(rules[i].Rule.Action) THEN TRUE
    ELSE IF stop THEN FALSE
    ELSE WalkPanics(rules, ctx, i + 1, stop, readsAction)

\* Whether a call of the evaluator reads through a nil pointer; the registry
\* is read behind the test of line 51 (89, 118, 141).
EvaluatePanics(e, R, ctx) ==
    IF e.registry = NilRegistry THEN FALSE
    ELSE WalkPanics(GetEnabled(R[e.registry]), ctx, 1, TRUE, TRUE)

EvaluateAllPanics(e, R, ctx) ==
    IF e.registry = NilRegistry THEN FALSE
    ELSE WalkPanics(GetEnabled(R[e.registry]), ctx, 1, FALSE, TRUE)

FindMatchingRulesPanics(e, R, ctx) ==
    IF e.registry = NilRegistry THEN FALSE
    ELSE WalkPanics(GetEnabled(R[e.registry]), ctx, 1, FALSE, FALSE)

\* FilterByValidator reads each rule's match block behind its nil test and
\* asks a validator-type matcher, which reads no pointer of the context.
FilterByValidatorPanics(e, R, validatorType) ==
    IF e.registry = NilRegistry THEN FALSE
    ELSE \E i \in 1..Len(GetEnabled(R[e.registry])) :
             LET compiled == GetEnabled(R[e.registry])[i]
             IN  IF IsNil(compiled.Rule) THEN TRUE
                 ELSE IF compiled.Rule.Match = Nil THEN FALSE
                 ELSE IsNil(compiled.Rule.Match)

\* Add past its validation, given AddPrepare's result p.
AddFinish(rules, p) ==
    IF p.err # Nil
    THEN [rules |-> rules, err |-> p.err, replaced |-> FALSE, K |-> p.K]
    ELSE [rules |-> AddLocked(rules, p.compiled), err |-> Nil,
          replaced |-> IndexOfName(rules, p.compiled.Rule.Name) # 0, K |-> p.K]

\* Mutant: a rule whose matcher failed to compile is registered all the same,
\* with the always-true matcher, before the error is returned.
MutAddPartial(rules, rule, K) ==
    Bind(AddPrepare(rule, K),
         LAMBDA p : IF p.err # Nil /\ "cause" \in DOMAIN p.err
                    THEN [rules |-> AddLocked(rules, [Rule |-> rule,
                                                      Matcher |-> AlwaysMatcher]),
                          err |-> p.err, replaced |-> FALSE, K |-> p.K]
                    ELSE AddFinish(rules, p))

\* Add as one sequential call: [rules, err, replaced, K].
Add(rules, rule, K) ==
    Bind(AddPrepare(rule, K), LAMBDA p : AddFinish(rules, p))

RECURSIVE MutAddAllSkipsFailed(_, _, _)
\* Mutant: a rule that fails is skipped and the rules after it are added; the
\* last error is returned.
MutAddAllSkipsFailed(rules, list, K) ==
    IF Len(list) = 0 THEN [rules |-> rules, err |-> Nil, K |-> K]
    ELSE Bind(Add(rules, list[1], K),
              LAMBDA a : Bind(MutAddAllSkipsFailed(a.rules, Tail(list), a.K),
                              LAMBDA rest : IF rest.err = Nil /\ a.err # Nil
                                            THEN [rest EXCEPT !.err = a.err]
                                            ELSE rest))

RECURSIVE AddAll(_, _, _)
\* AddAll: Add in list order, returning at the first error.  [rules, err, K].
AddAll(rules, list, K) ==
    IF Len(list) = 0 THEN [rules |-> rules, err |-> Nil, K |-> K]
    ELSE Bind(Add(rules, list[1], K),
              LAMBDA a : IF a.err # Nil
                         THEN [rules |-> a.rules, err |-> a.err, K |-> a.K]
                         ELSE AddAll(a.rules, Tail(list), a.K))

\* Merge as one sequential call on the registries R: the receiver's new rules.
Merge(R, dst, source) ==
    IF source = NilRegistry THEN R[dst]
    ELSE MergeLocked(R[dst], R[source])

(***************************************************************************)
(* The inputs of the model.                                                *)
(***************************************************************************)
NoConditions ==
    [ValidatorType |-> "", RepoPattern |-> "", Remote |-> "", BranchPattern |-> "",
     FilePattern |-> "", ContentPattern |-> "", CommandPattern |-> "",
     ToolType |-> "", EventType |-> ""]

OnOrigin == [NoConditions EXCEPT !.Remote = "origin"]

MainOnOrigin == [NoConditions EXCEPT !.Remote = "origin", !.BranchPattern = "main"]

BadBranch == [NoConditions EXCEPT !.BranchPattern = "[invalid"]

Block == [Type |-> "block", Message |-> "no origin push", Reference |-> "R1"]

Warn == [Type |-> "warn", Message |-> "careful", Reference |-> ""]

Allow == [Type |-> "allow", Message |-> "", Reference |-> ""]

MkRule(name, enabled, priority, match, action) ==
    [Name |-> name, Enabled |-> enabled, Priority |-> priority,
     Match |-> match, Action |-> action]

Low == 10

High == 20

\* The valid rules: per name a low-priority rule with no match block, a
\* high-priority rule on remote origin and a disabled high-priority rule; and
\* one rule with a cached pattern.
ValidRules ==
    {MkRule(n, TRUE, Low, Nil, Allow) : n \in Names}
        \cup {MkRule(n, TRUE, High, OnOrigin, Block) : n \in Names}
        \cup {MkRule(n, FALSE, High, Nil, Warn) : n \in Names}
        \cup {MkRule("b", TRUE, Low, MainOnOrigin, Warn)}

\* The rules Add rejects: nil, no name, no action, a pattern that does not compile.
InvalidRules ==
    {Nil,
     MkRule("", TRUE, Low, Nil, Allow),
     MkRule("a", TRUE, High, Nil, Nil),
     MkRule("a", TRUE, High, BadBranch, Block)}

\* The rules of the second registry, the source of Merge.
SourceRules ==
    {MkRule("a", TRUE, High, OnOrigin, Block), MkRule("c", TRUE, Low, Nil, Allow)}

\* The pool AddAll's lists are drawn from.
AddAllPool ==
    {MkRule("a", TRUE, Low, Nil, Allow),
     MkRule("b", TRUE, High, OnOrigin, Block),
     MkRule("c", TRUE, High, BadBranch, Block)}

RECURSIVE SeqsUpTo(_, _)
\* The sequences over S of length at most n.
SeqsUpTo(S, n) ==
    IF n = 0 THEN {<<>>}
    ELSE LET shorter == SeqsUpTo(S, n - 1)
         IN  shorter \cup {Append(q, x) : q \in shorter, x \in S}

Git(remote, branch) == [RepoRoot |-> "", Remote |-> remote, Branch |-> branch]

MkContext(git) ==
    [ValidatorType |-> "", GitContext |-> git, FileContext |-> Nil,
     Command |-> "", HookContext |-> Nil]

Contexts ==
    {MkContext(Git("origin", "main")), MkContext(Git("upstream", "dev")), MkContext(Nil)}

OptionLists ==
    {<<>>, <<WithDefaultAction("warn"), WithStopOnFirstMatch(FALSE)>>}

(***************************************************************************)
(* The calls of the registry and the evaluator, each one sequential call.  *)
(***************************************************************************)
CurK == [cache |-> cache, compiles |-> compiles, epochComp |-> epochComp]

SetK(K) ==
    /\ cache' = K.cache
    /\ compiles' = K.compiles
    /\ epochComp' = K.epochComp
    /\ UNCHANGED <<clears, cpc, ctext, returned, calls>>

AddAct(id, rule) ==
    \E a \in {Add(regs[id], rule, CurK)} :
        /\ regs' = [regs EXCEPT ![id] = a.rules]
        /\ SetK(a.K)
        /\ ret' = [op |-> "Add", reg |-> id, rule |-> rule,
                   val |-> [err |-> a.err, replaced |-> a.replaced]]
        /\ UNCHANGED <<pend, evaluator, opts, markerVars, mu>>

AddAllAct(id, list) ==
    \E a \in {AddAll(regs[id], list, CurK)} :
        /\ regs' = [regs EXCEPT ![id] = a.rules]
        /\ SetK(a.K)
        /\ ret' = [op |-> "AddAll", reg |-> id, list |-> list, val |-> [err |-> a.err]]
        /\ UNCHANGED <<pend, evaluator, opts, markerVars, mu>>

RemoveAct(id, name) ==
    \E r \in {Remove(regs[id], name)} :
        /\ regs' = [regs EXCEPT ![id] = r.rules]
        /\ ret' = [op |-> "Remove", reg |-> id, arg |-> name, val |-> [found |-> r.found]]
        /\ UNCHANGED <<pend, evaluator, opts, markerVars, mu>>
        /\ UNCHANGED cacheVars

ClearAct(id) ==
    /\ regs' = [regs EXCEPT ![id] = Clear(@)]
    /\ ret' = [op |-> "Clear", reg |-> id, arg |-> "", val |-> Nil]
    /\ UNCHANGED <<pend, evaluator, opts, markerVars, mu>>
    /\ UNCHANGED cacheVars

MergeAct(dst, source) ==
    /\ regs' = [regs EXCEPT ![dst] = Merge(regs, dst, source)]
    /\ ret' = [op |-> "Merge", reg |-> dst, arg |-> source, val |-> Nil]
    /\ UNCHANGED <<pend, evaluator, opts, markerVars, mu>>
    /\ UNCHANGED cacheVars

\* A call that panics returns nothing.
EvaluateAct(ctx) ==
    /\ \E panic \in {EvaluatePanics(evaluator, regs, ctx)} :
           ret' = [op |-> "Evaluate", ctx |-> ctx, panic |-> panic,
                   val |-> IF panic THEN Nil ELSE Evaluate(evaluator, regs, ctx)]
    /\ UNCHANGED <<regVars, markerVars, mu>>
    /\ UNCHANGED cacheVars

NoRet == [op |-> "", arg |-> "", val |-> Nil]

\* No file at the marker path.
NoFile == [kind |-> "none"]

InitCache ==
    /\ cache = NewPatternCache
    /\ compiles = [t \in PatternTexts |-> 0]
    /\ epochComp = [t \in PatternTexts |-> 0]
    /\ clears = 0
    /\ cpc = [g \in Procs |-> "idle"]
    /\ ctext = [g \in Procs |-> ""]
    /\ returned = [t \in PatternTexts |-> {}]
    /\ calls = [t \in PatternTexts |-> 0]
    /\ markerFile = NoFile
    /\ clock = 0
    /\ environ = ""

InitReg ==
    /\ regs = [id \in {"r", "s"} |-> NewRegistry]
    /\ pend = [g \in Procs |-> Nil]
    /\ mu = [id \in {"r", "s"} |-> NewRWMutex]
    /\ ret = NoRet

\* No evaluator in use.
InitNoEvaluator ==
    /\ opts = <<>>
    /\ evaluator = NewEvaluator(NilRegistry, <<>>)

\* An evaluator over registry r or over no registry, built with some options.
InitEvaluator ==
    /\ opts \in OptionLists
    /\ \E registry \in {NilRegistry, "r"} : evaluator = NewEvaluator(registry, opts)

Init == InitCache /\ InitReg /\ InitNoEvaluator

Next ==
    \/ \E rule \in ValidRules \cup InvalidRules : AddAct("r", rule)
    \/ \E rule \in SourceRules : AddAct("s", rule)
    \/ \E list \in SeqsUpTo(AddAllPool, MaxAddAll) : AddAllAct("r", list)
    \/ \E name \in Names : RemoveAct("r", name)
    \/ ClearAct("r")
    \/ \E source \in {NilRegistry, "s"} : MergeAct("r", source)

\* Sequential calls on registry r, with a second registry s as Merge's source.
Spec == Init /\ [][Next]_vars

InitE == InitCache /\ InitReg /\ InitEvaluator

NextEval ==
    \/ \E rule \in ValidRules : AddAct("r", rule)
    \/ \E name \in Names : RemoveAct("r", name)
    \/ \E ctx \in Contexts : EvaluateAct(ctx)

\* An evaluator over registry r (or over no registry) while r is filled.
SpecEval == InitE /\ [][NextEval]_vars

InitC == InitCache /\ InitReg /\ InitNoEvaluator

NextCache ==
    \/ \E g \in Procs, t \in CacheTexts : GetFastHit(g, t)
    \/ \E g \in Procs, t \in CacheTexts : GetFastMiss(g, t)
    \/ \E g \in Procs : GetSlow(g)
    \/ CacheClear

\* Concurrent Get and Clear calls on one PatternCache.
SpecCache == InitC /\ [][NextCache]_vars

(***************************************************************************)
(* Concurrent callers of one registry.  Add compiles the matcher before    *)
(* it takes the write lock, and Merge copies the source's rules under the  *)
(* source's read lock before it takes the receiver's write lock, so each   *)
(* of the two is a step before the lock and a step under it.               *)
(***************************************************************************)
\* The rules the concurrent callers add to r.
ConcRules ==
    {MkRule("a", TRUE, Low, Nil, Allow),
     MkRule("a", FALSE, High, Nil, Warn),
     MkRule("b", TRUE, Low, Nil, Allow)}

\* Add, lines 210-231: a failed validation or compilation returns at once;
\* otherwise the goroutine goes on to the lock with its compiled rule.  fresh
\* records whether the name was absent from the registry at this moment.
AddBegin(g, id, rule) ==
    /\ pend[g] = Nil
    /\ \E p \in {AddPrepare(rule, CurK)} :
           /\ SetK(p.K)
           /\ IF p.err # Nil
              THEN /\ ret' = [op |-> "Add", reg |-> id, rule |-> rule,
                              val |-> [err |-> p.err, replaced |-> FALSE]]
                   /\ pend' = pend
              ELSE /\ pend' = [pend EXCEPT ![g] =
                                   [op |-> "Add", reg |-> id, compiled |-> p.compiled,
                                    fresh |-> IndexOfName(regs[id], rule.Name) = 0]]
                   /\ ret' = ret
    /\ UNCHANGED <<regs, evaluator, opts, markerVars, mu>>

\* Add, lines 233-258, under the write lock.
AddCommit(g) ==
    /\ pend[g] # Nil
    /\ pend[g].op = "Add"
    /\ regs' = [regs EXCEPT ![pend[g].reg] = AddLocked(@, pend[g].compiled)]
    /\ ret' = [op |-> "Add", reg |-> pend[g].reg, rule |-> pend[g].compiled.Rule,
               val |-> [err |-> Nil,
                        replaced |-> IndexOfName(regs[pend[g].reg],
                                                 pend[g].compiled.Rule.Name) # 0,
                        fresh |-> pend[g].fresh]]
    /\ pend' = [pend EXCEPT ![g] = Nil]
    /\ UNCHANGED <<evaluator, opts, markerVars, mu>>
    /\ UNCHANGED cacheVars

\* Merge, lines 364-371: nothing to do for a nil source; otherwise the copy of
\* the source's rules under its read lock.
MergeBegin(g, dst, source) ==
    /\ pend[g] = Nil
    /\ IF source = NilRegistry
       THEN /\ ret' = [op |-> "Merge", reg |-> dst, arg |-> source, val |-> Nil]
            /\ pend' = pend
       ELSE /\ pend' = [pend EXCEPT ![g] = [op |-> "Merge", reg |-> dst,
                                            source |-> source,
                                            sourceRules |-> regs[source]]]
            /\ ret' = ret
    /\ UNCHANGED <<regs, evaluator, opts, markerVars, mu>>
    /\ UNCHANGED cacheVars

\* Merge, lines 373-394, under the receiver's write lock.
MergeCommit(g) ==
    /\ pend[g] # Nil
    /\ pend[g].op = "Merge"
    /\ regs' = [regs EXCEPT ![pend[g].reg] = MergeLocked(@, pend[g].sourceRules)]
    /\ ret' = [op |-> "Merge", reg |-> pend[g].reg, arg |-> pend[g].source,
               val |-> Nil]
    /\ pend' = [pend EXCEPT ![g] = Nil]
    /\ UNCHANGED <<evaluator, opts, markerVars, mu>>
    /\ UNCHANGED cacheVars

NextConc ==
    \/ \E g \in Procs, rule \in ConcRules \cup {Nil} : AddBegin(g, "r", rule)
    \/ \E g \in Procs, rule \in SourceRules : AddBegin(g, "s", rule)
    \/ \E g \in Procs : AddCommit(g)
    \/ \E g \in Procs, source \in {NilRegistry, "r", "s"} : MergeBegin(g, "r", source)
    \/ \E g \in Procs : MergeCommit(g)
    \/ \E name \in Names : RemoveAct("r", name)
    \/ ClearAct("r")

\* Two goroutines calling Add, Merge, Remove and Clear on registry r.
SpecConc == Init /\ [][NextConc]_vars

(***************************************************************************)
(* Concurrent callers of Evaluate.  Evaluate copies the enabled rules      *)
(* under the registry's read lock (GetEnabled) and matches them after the  *)
(* lock is released, so it is a step at the lock and a step after it.      *)
(* pend[g] keeps the finished call's result until g calls again.           *)
(***************************************************************************)
\* The rules registry r is filled with while it is evaluated.
EvalRules ==
    {MkRule("a", TRUE, Low, Nil, Allow),
     MkRule("a", TRUE, High, OnOrigin, Block),
     MkRule("b", TRUE, High, OnOrigin, Warn)}

EvalContexts == {MkContext(Git("origin", "main")), MkContext(Nil)}

\* Evaluate, lines 51-58: the nil check and GetEnabled.  at is the registry's
\* rule list at that moment and overlap tells whether another goroutine was
\* inside Evaluate then.
EvalBegin(g, ctx) ==
    /\ IF pend[g] = Nil THEN TRUE ELSE pend[g].op = "Evaluated"
    /\ LET overlap == \E h \in Procs \ {g} : pend[h] # Nil /\ pend[h].op = "Evaluate"
       IN  IF evaluator.registry = NilRegistry
           THEN pend' = [pend EXCEPT ![g] =
                             [op |-> "Evaluated", ctx |-> ctx, at |-> <<>>,
                              overlap |-> overlap, val |-> Unmatched(evaluator)]]
           ELSE pend' = [pend EXCEPT ![g] =
                             [op |-> "Evaluate", ctx |-> ctx,
                              at |-> regs[evaluator.registry], overlap |-> overlap,
                              rules |-> GetEnabled(regs[evaluator.registry])]]
    /\ UNCHANGED <<regs, evaluator, opts, ret, markerVars, mu>>
    /\ UNCHANGED cacheVars

\* Evaluate, lines 59-83, over the copy.
EvalFinish(g) ==
    /\ pend[g] # Nil
    /\ pend[g].op = "Evaluate"
    /\ pend' = [pend EXCEPT ![g] =
                    [op |-> "Evaluated", ctx |-> pend[g].ctx, at |-> pend[g].at,
                     overlap |-> pend[g].overlap,
                     val |-> EvaluateRules(evaluator, pend[g].rules, pend[g].ctx)]]
    /\ UNCHANGED <<regs, evaluator, opts, ret, markerVars, mu>>
    /\ UNCHANGED cacheVars

NextEvalConc ==
    \/ \E rule \in EvalRules : AddAct("r", rule)
    \/ \E name \in {"a", "b"} : RemoveAct("r", name)
    \/ \E g \in Procs, ctx \in EvalContexts : EvalBegin(g, ctx)
    \/ \E g \in Procs : EvalFinish(g)

\* Two goroutines calling Evaluate on one evaluator while r is filled.
SpecEvalConc == InitE /\ [][NextEvalConc]_vars

(***************************************************************************)
(* MergeRules, a function of its two rule lists and of the map's iteration *)
(* order.                                                                  *)
(***************************************************************************)
MaxMergeRules == 2

\* The rules MergeRules' lists are drawn from; the last one is no valid rule.
RawPool ==
    {MkRule("a", TRUE, Low, Nil, Allow),
     MkRule("a", TRUE, High, OnOrigin, Block),
     MkRule("b", TRUE, Low, MainOnOrigin, Warn),
     MkRule("c", FALSE, High, Nil, Warn),
     MkRule("b", TRUE, High, Nil, Nil)}

\* The orders in which a map over the names can be walked.
Orders == {o \in [1..Cardinality(Names) -> Names] : \A i, j \in DOMAIN o : o[i] = o[j] => i = j}

\* The call MergeRules(base, override) about to be made.
InitMergeRules ==
    /\ InitCache
    /\ InitNoEvaluator
    /\ regs = [id \in {"r", "s"} |-> NewRegistry]
    /\ pend = [g \in Procs |-> Nil]
    /\ mu = [id \in {"r", "s"} |-> NewRWMutex]
    /\ \E base, override \in SeqsUpTo(RawPool, MaxMergeRules) :
           ret = [op |-> "MergeRulesCall", base |-> base, override |-> override,
                  val |-> <<>>]

MergeRulesAct(order) ==
    /\ ret.op = "MergeRulesCall"
    /\ ret' = [op |-> "MergeRules", base |-> ret.base, override |-> ret.override,
               val |-> MergeRules(ret.base, ret.override, order)]
    /\ UNCHANGED <<regVars, markerVars, mu>>
    /\ UNCHANGED cacheVars

NextMergeRules == \E order \in Orders : MergeRulesAct(order)

\* One call of MergeRules on each pair of rule lists.
SpecMergeRules == InitMergeRules /\ [][NextMergeRules]_vars

(***************************************************************************)
(* EvaluateAll and FilterByValidator over a registry whose rules carry     *)
(* validator-type conditions.                                              *)
(***************************************************************************)
OnGit == [NoConditions EXCEPT !.ValidatorType = "git.*", !.Remote = "origin"]

OnMarkdown == [NoConditions EXCEPT !.ValidatorType = "file.markdown"]

OnPush == [NoConditions EXCEPT !.ValidatorType = "git.push"]

OnAll == [NoConditions EXCEPT !.ValidatorType = "*"]

TypedRules ==
    {MkRule("a", TRUE, Low, Nil, Allow),
     MkRule("a", TRUE, High, OnGit, Block),
     MkRule("b", TRUE, High, OnMarkdown, Warn),
     MkRule("b", FALSE, High, OnPush, Block),
     MkRule("c", TRUE, Low, OnAll, Warn),
     MkRule("c", TRUE, High, OnOrigin, Block)}

ValidatorTypes == {"", "git.push", "git.commit", "file.markdown"}

TypedContexts ==
    {[MkContext(git) EXCEPT !.ValidatorType = t] :
        git \in {Nil, Git("origin", "main")}, t \in {"", "git.push", "file.markdown"}}

EvaluateAllAct(ctx) ==
    /\ \E panic \in {EvaluateAllPanics(evaluator, regs, ctx)} :
           ret' = [op |-> "EvaluateAll", ctx |-> ctx, panic |-> panic,
                   val |-> IF panic THEN <<>> ELSE EvaluateAll(evaluator, regs, ctx)]
    /\ UNCHANGED <<regVars, markerVars, mu>>
    /\ UNCHANGED cacheVars

FilterByValidatorAct(validatorType) ==
    /\ \E panic \in {FilterByValidatorPanics(evaluator, regs, validatorType)} :
           ret' = [op |-> "FilterByValidator", arg |-> validatorType, panic |-> panic,
                   val |-> IF panic THEN <<>>
                           ELSE FilterByValidator(evaluator, regs, validatorType)]
    /\ UNCHANGED <<regVars, markerVars, mu>>
    /\ UNCHANGED cacheVars

FindMatchingRulesAct(ctx) ==
    /\ \E panic \in {FindMatchingRulesPanics(evaluator, regs, ctx)} :
           ret' = [op |-> "FindMatchingRules", ctx |-> ctx, panic |-> panic,
                   val |-> IF panic THEN <<>> ELSE FindMatchingRules(evaluator, regs, ctx)]
    /\ UNCHANGED <<regVars, markerVars, mu>>
    /\ UNCHANGED cacheVars

NextTyped ==
    \/ \E rule \in TypedRules : AddAct("r", rule)
    \/ \E name \in Names : RemoveAct("r", name)
    \/ \E ctx \in TypedContexts : EvaluateAllAct(ctx)
    \/ \E validatorType \in ValidatorTypes : FilterByValidatorAct(validatorType)

\* An evaluator asked for all matches and for a validator's rules while r is filled.
SpecTyped == InitE /\ [][NextTyped]_vars

(***************************************************************************)
(* Matchers as functions: a matcher is built and asked once about one      *)
(* context.  ret holds the call, and after it the matcher and its answer.  *)
(***************************************************************************)
MaxChildren == 2

\* The children composite matchers are built from.
Leaves ==
    {NewRemoteMatcher("origin"), NewRemoteMatcher("upstream"), AlwaysMatcher,
     NeverMatcher}

\* What the validator-type matchers are configured with.
ValidatorPatterns == {"*", "git.*", "git.push", "file.markdown", "git", ""}

ContextValidatorTypes == {"", "git", "git.push", "git.commit", "file.markdown"}

PatternKinds ==
    {"repo_pattern", "branch_pattern", "file_pattern", "content_pattern",
     "command_pattern"}

MatchPatterns == {"main", "^ma", ".*"}

\* The values of the context fields the pattern matchers read.
Values == {"", "main", "dev", "domain"}

\* hook.Context with its ToolInput: the hook context's file path, content and
\* command all v.
Hook(v) ==
    [ToolName |-> "Bash", EventType |-> "PreToolUse", FilePath |-> v, Content |-> v,
     Command |-> v]

PatternContexts ==
    {[ValidatorType |-> "", GitContext |-> git, FileContext |-> file,
      Command |-> command, HookContext |-> hookCtx] :
        git \in {Nil} \cup {[RepoRoot |-> v, Remote |-> "origin", Branch |-> v] :
                               v \in Values},
        file \in {Nil} \cup {[Path |-> v, Content |-> v] : v \in Values},
        command \in Values,
        hookCtx \in {Nil} \cup {Hook(v) : v \in Values}}

\* What the tool-type and event-type matchers are configured with.
ConfiguredTypes == {"Bash", "BASH", "bash", "Write", "PreToolUse", "pretooluse", ""}

\* Contexts without a hook context, and with one of each tool and event.
HookTypeContexts ==
    {[ValidatorType |-> "", GitContext |-> git, FileContext |-> Nil,
      Command |-> "", HookContext |-> hookCtx] :
        git \in {Nil, [RepoRoot |-> "main", Remote |-> "origin", Branch |-> "main"]},
        hookCtx \in {Nil} \cup
            {[ToolName |-> tool, EventType |-> event, FilePath |-> "",
              Content |-> "", Command |-> ""] :
                tool \in {"Bash", "Write", ""},
                event \in {"PreToolUse", "PostToolUse", ""}}}

\* The remotes the remote matchers are built with.
Remotes == {"origin", "upstream"}

\* The calls: a composite over leaves, a validator-type matcher, a pattern
\* matcher, a remote matcher.
MatchCalls ==
    {[family |-> "composite", op |-> op, children |-> children, ctx |-> ctx] :
        op \in {"AND", "OR"}, children \in SeqsUpTo(Leaves, MaxChildren),
        ctx \in Contexts}
    \cup {[family |-> "composite", op |-> "NOT", children |-> <<child>>, ctx |-> ctx] :
             child \in Leaves, ctx \in Contexts}
    \cup {[family |-> "validator_type", pattern |-> vp,
           ctx |-> ValidatorContext(t)] :
             vp \in ValidatorPatterns, t \in ContextValidatorTypes}
    \cup {[family |-> "pattern", kind |-> kind, pattern |-> mp, ctx |-> ctx] :
             kind \in PatternKinds, mp \in MatchPatterns, ctx \in PatternContexts}
    \cup {[family |-> "remote", remote |-> remote, ctx |-> ctx] :
             remote \in Remotes, ctx \in PatternContexts}
    \cup {[family |-> "hook_type", kind |-> kind, configured |-> configured,
           ctx |-> ctx] :
             kind \in {"tool_type", "event_type"}, configured \in ConfiguredTypes,
             ctx \in HookTypeContexts}

InitMatch ==
    /\ InitCache
    /\ InitNoEvaluator
    /\ regs = [id \in {"r", "s"} |-> NewRegistry]
    /\ pend = [g \in Procs |-> Nil]
    /\ mu = [id \in {"r", "s"} |-> NewRWMutex]
    /\ \E call \in MatchCalls : ret = [op |-> "MatchCall", call |-> call]

\* NewAndMatcher, NewOrMatcher or NewNotMatcher, then Match.
CompositeMatchAct ==
    /\ ret.op = "MatchCall"
    /\ ret.call.family = "composite"
    /\ \E m \in {CASE ret.call.op = "AND" -> NewAndMatcher(ret.call.children)
                   [] ret.call.op = "OR" -> NewOrMatcher(ret.call.children)
                   [] ret.call.op = "NOT" -> NewNotMatcher(ret.call.children[1])} :
           ret' = [op |-> "Match", call |-> ret.call, matcher |-> m,
                   val |-> Match(m, ret.call.ctx)]
    /\ UNCHANGED <<regVars, markerVars, mu>>
    /\ UNCHANGED cacheVars

\* NewValidatorTypeMatcher, then Match.
ValidatorTypeMatchAct ==
    /\ ret.op = "MatchCall"
    /\ ret.call.family = "validator_type"
    /\ \E m \in {NewValidatorTypeMatcher(ret.call.pattern)} :
           ret' = [op |-> "Match", call |-> ret.call, matcher |-> m,
                   val |-> Match(m, ret.call.ctx)]
    /\ UNCHANGED <<regVars, markerVars, mu>>
    /\ UNCHANGED cacheVars

\* One of the five pattern matcher constructors, then Match.
PatternMatchAct ==
    /\ ret.op = "MatchCall"
    /\ ret.call.family = "pattern"
    /\ \E f \in {IF ret.call.kind = "content_pattern"
                 THEN NewContentPatternMatcher(ret.call.pattern, CurK)
                 ELSE NewCachedPatternMatcher(ret.call.kind, ret.call.pattern, CurK)} :
           /\ f.err = Nil
           /\ SetK(f.K)
           /\ ret' = [op |-> "Match", call |-> ret.call, matcher |-> f.matcher,
                      val |-> Match(f.matcher, ret.call.ctx)]
    /\ UNCHANGED <<regVars, markerVars, mu>>

\* NewRemoteMatcher, then Match.
RemoteMatchAct ==
    /\ ret.op = "MatchCall"
    /\ ret.call.family = "remote"
    /\ \E m \in {NewRemoteMatcher(ret.call.remote)} :
           ret' = [op |-> "Match", call |-> ret.call, matcher |-> m,
                   val |-> Match(m, ret.call.ctx)]
    /\ UNCHANGED <<regVars, markerVars, mu>>
    /\ UNCHANGED cacheVars

\* NewToolTypeMatcher or NewEventTypeMatcher, then Match.
HookTypeMatchAct ==
    /\ ret.op = "MatchCall"
    /\ ret.call.family = "hook_type"
    /\ \E m \in {IF ret.call.kind = "tool_type"
                 THEN NewToolTypeMatcher(ret.call.configured)
                 ELSE NewEventTypeMatcher(ret.call.configured)} :
           ret' = [op |-> "Match", call |-> ret.call, matcher |-> m,
                   val |-> Match(m, ret.call.ctx)]
    /\ UNCHANGED <<regVars, markerVars, mu>>
    /\ UNCHANGED cacheVars

NextMatch ==
    \/ HookTypeMatchAct
    \/ CompositeMatchAct
    \/ ValidatorTypeMatchAct
    \/ PatternMatchAct
    \/ RemoteMatchAct

\* One matcher built and asked about one context.
SpecMatch == InitMatch /\ [][NextMatch]_vars

(***************************************************************************)
(* DetectPatternType and CompilePattern as functions of the text.          *)
(***************************************************************************)
\* The characters the indicators are made of, and three that occur in none.
Alphabet ==
    {"^", "$", "(", "?", "\\", "d", "w", "s", "b", "[", "]", ")", "|", "+", ".",
     "*", "a", "/", "{"}

\* The texts of the pattern tests.
TableTexts ==
    {"*/kong/*", "**/test/**", "file?.txt", "{main,master}", "path/to/file",
     "^start", "end$", "^exact$", "(?i)case-insensitive", "file\\d+", "\\w+",
     "[a-z]+", "foo|bar", "a+", "prefix.*suffix", ".+test", "[invalid"}

\* Every text of at most two characters over the alphabet, and the tests'.
DetectTexts ==
    {x \o y : x \in Alphabet \cup {""}, y \in Alphabet \cup {""}} \cup TableTexts

InitDetect ==
    /\ InitCache
    /\ InitNoEvaluator
    /\ regs = [id \in {"r", "s"} |-> NewRegistry]
    /\ pend = [g \in Procs |-> Nil]
    /\ mu = [id \in {"r", "s"} |-> NewRWMutex]
    /\ \E text \in DetectTexts : ret = [op |-> "PatternCall", text |-> text]

DetectPatternTypeAct ==
    /\ ret.op = "PatternCall"
    /\ ret' = [op |-> "DetectPatternType", text |-> ret.text,
               val |-> DetectPatternType(ret.text)]
    /\ UNCHANGED <<regVars, markerVars, mu>>
    /\ UNCHANGED cacheVars

\* CompilePattern on the texts of the tests.
CompilePatternAct ==
    /\ ret.op = "PatternCall"
    /\ ret.text \in TableTexts
    /\ ret' = [op |-> "CompilePattern", text |-> ret.text,
               val |-> CompilePattern(ret.text, 0)]
    /\ UNCHANGED <<regVars, markerVars, mu>>
    /\ UNCHANGED cacheVars

NextDetect ==
    \/ DetectPatternTypeAct
    \/ CompilePatternAct

SpecDetect == InitDetect /\ [][NextDetect]_vars

(***************************************************************************)
(* AddAll with longer lists, on a registry filled by Add.                  *)
(***************************************************************************)
MaxList == 3

\* The rules the registry is filled with before AddAll is called.
SeedRules ==
    {MkRule("b", TRUE, Low, Nil, Allow), MkRule("c", FALSE, High, Nil, Warn)}

NextAddAll ==
    \/ \E rule \in SeedRules : AddAct("r", rule)
    \/ \E list \in SeqsUpTo(AddAllPool, MaxList) : AddAllAct("r", list)

SpecAddAll == Init /\ [][NextAddAll]_vars

(***************************************************************************)
(* BuildMatcher as a function: a call on one condition set, and after it   *)
(* the same call again or the call on a content-only condition set.        *)
(***************************************************************************)
MaxUses == 2

\* The condition sets: nil, and per pattern field no text, a text that
\* compiles or a text that does not, with or without a remote and a
\* validator type.
BuildMatches ==
    {Nil}
    \cup {[ValidatorType |-> vt, RepoPattern |-> repo, Remote |-> remote,
           BranchPattern |-> branch, FilePattern |-> file, ContentPattern |-> content,
           CommandPattern |-> command, ToolType |-> "", EventType |-> ""] :
             vt \in {"", "git.*"}, remote \in {"", "origin"},
             repo \in {"", "main", "[invalid"}, branch \in {"", "main", "[a"},
             file \in {"", "main", "[b"}, content \in {"", "main", "[c"},
             command \in {"", "main", "[d"}}

InitBuild ==
    /\ InitCache
    /\ InitNoEvaluator
    /\ regs = [id \in {"r", "s"} |-> NewRegistry]
    /\ pend = [g \in Procs |-> Nil]
    /\ mu = [id \in {"r", "s"} |-> NewRWMutex]
    /\ \E match \in BuildMatches :
           ret = [op |-> "BuildMatcherCall", match |-> match, uses |-> 0]

\* before is the cache the call found.
BuildMatcherAct ==
    /\ ret.op = "BuildMatcherCall"
    /\ \E r \in {BuildMatcher(ret.match, CurK)} :
           /\ SetK(r.K)
           /\ ret' = [op |-> "BuildMatcher", match |-> ret.match,
                      matcher |-> r.matcher, err |-> r.err,
                      uses |-> ret.uses + 1, before |-> cache]
    /\ UNCHANGED <<regVars, markerVars, mu>>

\* Registry.Add of a rule that carries the condition set.
AddBuiltAct ==
    /\ ret.op = "BuildMatcherCall"
    /\ AddAct("r", MkRule("a", TRUE, Low, ret.match, Allow))

\* The condition sets that hold a content pattern and nothing else.
ContentOnly ==
    {[NoConditions EXCEPT !.ContentPattern = v] : v \in {"main", "[a", "[c"}}

\* The next call is set up: the same condition set again (again) or a
\* content-only one.
CallAgainAct(again, match) ==
    /\ ret.op = "BuildMatcher"
    /\ ret.uses < MaxUses
    /\ ret' = [op |-> "BuildMatcherCall", match |-> IF again THEN ret.match ELSE match,
               uses |-> ret.uses]
    /\ UNCHANGED <<regVars, markerVars, mu>>
    /\ UNCHANGED cacheVars

NextBuild ==
    \/ BuildMatcherAct
    \/ AddBuiltAct
    \/ \E match \in ContentOnly : CallAgainAct(FALSE, match)
    \/ CallAgainAct(TRUE, Nil)

SpecBuild == InitBuild /\ [][NextBuild]_vars

(***************************************************************************)
(* The evaluator over rules of every matcher kind, asked about contexts    *)
(* whose git, file and hook parts are each present or absent.              *)
(***************************************************************************)
OnBashFile == [NoConditions EXCEPT !.ToolType = "Bash", !.FilePattern = "main"]

OnEventContentCommand ==
    [NoConditions EXCEPT !.EventType = "PreToolUse", !.ContentPattern = "main",
                         !.CommandPattern = "main"]

OnGitAll ==
    [NoConditions EXCEPT !.ValidatorType = "git.*", !.Remote = "origin",
                         !.RepoPattern = "main", !.BranchPattern = "main"]

PartRules ==
    {MkRule("a", TRUE, High, OnBashFile, Block),
     MkRule("b", TRUE, Low, OnEventContentCommand, Warn),
     MkRule("c", TRUE, Low, OnGitAll, Allow),
     MkRule("c", TRUE, Low, Nil, Allow),
     MkRule("b", TRUE, High, NoConditions, Warn)}
        \cup {MkRule(n, FALSE, High, OnBashFile, Warn) : n \in Names}

PartContexts ==
    {[ValidatorType |-> "git.push", GitContext |-> git, FileContext |-> file,
      Command |-> "", HookContext |-> hookCtx] :
        git \in {Nil, [RepoRoot |-> "main", Remote |-> "origin", Branch |-> "main"]},
        file \in {Nil, [Path |-> "main", Content |-> "main"], [Path |-> "", Content |-> ""]},
        hookCtx \in {Nil, Hook("main")}}

NextParts ==
    \/ \E rule \in PartRules : AddAct("r", rule)
    \/ ClearAct("r")
    \/ \E ctx \in PartContexts : EvaluateAct(ctx)
    \/ \E ctx \in PartContexts : EvaluateAllAct(ctx)
    \/ \E ctx \in PartContexts : FindMatchingRulesAct(ctx)
    \/ \E validatorType \in ValidatorTypes : FilterByValidatorAct(validatorType)

SpecParts == InitE /\ [][NextParts]_vars

(***************************************************************************)
(* Properties.                                                             *)
(***************************************************************************)
\* a ranks before b: higher priority, or equal priority and the smaller name.
Outranks(a, b) ==
    \/ a.Priority > b.Priority
    \/ a.Priority = b.Priority /\ CompareStrings(a.Name, b.Name) < 0

\* The indexes of the enabled rules of a list whose matcher matches ctx.
EnabledHits(rules, ctx) ==
    {i \in 1..Len(rules) : rules[i].Rule.Enabled /\ Match(rules[i].Matcher, ctx)}

\* C1: Evaluate returns matched=true with the rule, action, message and
\* reference of the enabled matching rule that outranks every other enabled
\* matching rule (higher priority, ties by ascending name), whenever there is one.
C1_EvaluateFirstInOrder ==
    (ret.op = "Evaluate" /\ evaluator.registry # NilRegistry) =>
        LET rules == regs[evaluator.registry]
            hits == EnabledHits(rules, ret.ctx)
        IN  hits # {} =>
                \E i \in hits :
                    /\ ret.val = [Matched |-> TRUE, Rule |-> rules[i].Rule,
                                  Action |-> rules[i].Rule.Action.Type,
                                  Message |-> rules[i].Rule.Action.Message,
                                  Reference |-> rules[i].Rule.Action.Reference]
                    /\ \A j \in hits \ {i} : Outranks(rules[i].Rule, rules[j].Rule)

\* C1 witness: a match was returned although a disabled rule outranks it and
\* another enabled matching rule ties with it on priority.
C1_Witness ==
    /\ ret.op = "Evaluate"
    /\ evaluator.registry = "r"
    /\ ret.val.Matched
    /\ \E i, j \in 1..Len(regs["r"]) :
           /\ ~regs["r"][i].Rule.Enabled
           /\ Outranks(regs["r"][i].Rule, ret.val.Rule)
           /\ j \in EnabledHits(regs["r"], ret.ctx)
           /\ regs["r"][j].Rule # ret.val.Rule
           /\ regs["r"][j].Rule.Priority = ret.val.Rule.Priority

\* The default action the options configure: the last WithDefaultAction's, and
\* allow when there is none.
ConfiguredDefault(os) ==
    LET S == {i \in 1..Len(os) : os[i].opt = "default"}
    IN  IF S = {} THEN "allow"
        ELSE os[CHOOSE i \in S : \A j \in S : j <= i].action

\* C2: with no registry, or with no enabled rule matching the context (empty
\* registry and only disabled rules included), Evaluate returns matched=false,
\* no rule and the configured default action.
C2_UnmatchedDefault ==
    (/\ ret.op = "Evaluate"
     /\ \/ evaluator.registry = NilRegistry
        \/ EnabledHits(regs[evaluator.registry], ret.ctx) = {}) =>
        /\ ret.val.Matched = FALSE
        /\ ret.val.Rule = Nil
        /\ ret.val.Action = ConfiguredDefault(opts)

\* C2 witness: registry r holds an enabled rule and a disabled one, none matches
\* the context, and the evaluator was built with WithDefaultAction(warn).
C2_Witness ==
    /\ ret.op = "Evaluate"
    /\ evaluator.registry = "r"
    /\ opts # <<>>
    /\ ret.val.Action = "warn"
    /\ ~ret.val.Matched
    /\ \E i, j \in 1..Len(regs["r"]) :
           regs["r"][i].Rule.Enabled /\ ~regs["r"][j].Rule.Enabled

\* rules is in registry order: priority descending, equal priorities by
\* ascending name.
Sorted(rules) ==
    \A i, j \in 1..Len(rules) :
        i < j =>
            \/ rules[i].Rule.Priority > rules[j].Rule.Priority
            \/ /\ rules[i].Rule.Priority = rules[j].Rule.Priority
               /\ CompareStrings(rules[i].Rule.Name, rules[j].Rule.Name) <= 0

\* C3: after every Add, AddAll, Remove, Merge and Clear each registry is sorted
\* by descending priority and, among equal priorities, by ascending name.
C3_AlwaysSorted == \A id \in DOMAIN regs : Sorted(regs[id])

\* C3 witness: a Merge left three rules in r, the first two of equal priority.
C3_Witness ==
    /\ ret.op = "Merge"
    /\ ret.arg = "s"
    /\ Len(regs["r"]) = 3
    /\ regs["r"][1].Rule.Priority = regs["r"][2].Rule.Priority
    /\ regs["r"][2].Rule.Priority > regs["r"][3].Rule.Priority

\* C4: in every state a registry can reach, concurrent Adds of one name and
\* Merge included, no two entries of a registry carry the same name.
C4_UniqueNames ==
    \A id \in DOMAIN regs :
        \A i, j \in 1..Len(regs[id]) :
            regs[id][i].Rule.Name = regs[id][j].Rule.Name => i = j

\* C4 witness: an Add that found its name absent when it was called replaced
\* an entry under the lock, another caller having registered the name in
\* between, and r holds rules that came in by Merge.
C4_Witness ==
    /\ ret.op = "Add"
    /\ ret.reg = "r"
    /\ ret.val.err = Nil
    /\ ret.val.replaced
    /\ ret.val.fresh
    /\ Len(regs["r"]) = 3
    /\ \E i \in 1..3 : regs["r"][i].Rule \in SourceRules

\* What the rule's match block asks of a context, for the conditions the
\* model's rules use (remote and branch pattern "main").
MeetsConditions(rule, ctx) ==
    \/ rule.Match = Nil
    \/ /\ rule.Match # Nil
       /\ rule.Match.Remote # "" =>
              (ctx.GitContext # Nil /\ ctx.GitContext.Remote = rule.Match.Remote)
       /\ rule.Match.BranchPattern # "" =>
              (ctx.GitContext # Nil /\ ctx.GitContext.Branch = rule.Match.BranchPattern)

\* C5: a successful Add of a rule whose name is already registered leaves Size
\* as it was and makes Get(name) the new rule, with a matcher for its conditions.
C5_AddOverwrites ==
    [][(/\ ret'.op = "Add"
        /\ ret'.val.err = Nil
        /\ IndexOfName(regs[ret'.reg], ret'.rule.Name) # 0) =>
            LET before == regs[ret'.reg]
                after == regs'[ret'.reg]
                got == Get(after, ret'.rule.Name)
            IN  /\ Size(after) = Size(before)
                /\ Cardinality({i \in 1..Len(after) :
                                    after[i].Rule.Name = ret'.rule.Name}) = 1
                /\ got # Nil
                /\ got.Rule = ret'.rule
                /\ \A ctx \in Contexts :
                       Match(got.Matcher, ctx) = MeetsConditions(ret'.rule, ctx)]_vars

\* C5 witness: an Add replaced an entry of r by a low-priority rule while r
\* holds three rules.
C5_Witness ==
    /\ ret.op = "Add"
    /\ ret.reg = "r"
    /\ ret.val.err = Nil
    /\ ret.val.replaced
    /\ ret.rule.Priority = Low
    /\ Len(regs["r"]) = 3

\* The names of a rule list, in list order.
NamesOf(rules) == [i \in 1..Len(rules) |-> rules[i].Rule.Name]

\* The registry holds exactly b and a at priority 10 and c at priority 20.
C6_Case(rules) ==
    /\ Len(rules) = 3
    /\ \E i, j, k \in 1..3 :
           /\ rules[i].Rule.Name = "b" /\ rules[i].Rule.Priority = 10
           /\ rules[j].Rule.Name = "a" /\ rules[j].Rule.Priority = 10
           /\ rules[k].Rule.Name = "c" /\ rules[k].Rule.Priority = 20

\* C6 as stated: the rules {b, 10}, {a, 10}, {c, 20} are listed c, b, a.
C6_OrderCBA == C6_Case(regs["r"]) => NamesOf(GetAll(regs["r"])) = <<"c", "b", "a">>

\* C6 amended: the rules {b, 10}, {a, 10}, {c, 20} are listed c, a, b.
C6_OrderCAB == C6_Case(regs["r"]) => NamesOf(GetAll(regs["r"])) = <<"c", "a", "b">>

\* C6 witness: the three rules are registered, the last one by Add.
C6_Witness == C6_Case(regs["r"]) /\ ret.op = "Add" /\ ret.val.err = Nil

\* C7: an Add of a nil rule, a rule with no name, no action or a pattern that
\* does not compile returns an error, and a failed Add leaves every registry's
\* rule list as it was.
C7_FailedAddNoMutation ==
    [][ret'.op = "Add" =>
           /\ (\/ ret'.rule = Nil
               \/ ret'.rule.Name = ""
               \/ ret'.rule.Action = Nil
               \/ (ret'.rule.Match # Nil /\ ret'.rule.Match.BranchPattern = "[invalid"))
                  => ret'.val.err # Nil
           /\ ret'.val.err # Nil => regs' = regs]_vars

\* C7 witness: an Add failed on its pattern while r holds a rule of that name.
C7_Witness ==
    /\ ret.op = "Add"
    /\ ret.val.err # Nil
    /\ ret.val.err.msg = "failed to compile rule matcher"
    /\ Len(regs["r"]) >= 2
    /\ IndexOfName(regs["r"], ret.rule.Name) # 0

\* C8: all Get calls for a text that returned a compiled pattern since the last
\* Clear returned the identical instance, the one the cache holds.
C8_SameInstance ==
    \A t \in PatternTexts :
        \A x, y \in returned[t] :
            (x.pattern # Nil /\ y.pattern # Nil) =>
                (x.pattern = y.pattern /\ cache.patterns[t] = x.pattern)

\* C8 witness: two Get calls of a compiling text completed, the later one on
\* the slow path after another goroutine had stored the pattern.
C8_Witness ==
    /\ ret.op = "CacheGet"
    /\ ret.via = "recheck"
    /\ ret.val.pattern # Nil
    /\ calls[ret.arg] >= 2

\* C9: once a Get has returned an error for a text, that error is the one the
\* cache stores, every Get of the text since the last Clear returned it, and the
\* text was compiled once.
C9_ErrorCached ==
    \A t \in PatternTexts :
        (\E x \in returned[t] : x.err # Nil) =>
            /\ cache.errors[t] # Nil
            /\ returned[t] = {[pattern |-> Nil, err |-> cache.errors[t]]}
            /\ epochComp[t] = 1

\* C9 witness: a text that does not compile was asked for twice, the second
\* time answered from the error map.
C9_Witness ==
    /\ ret.op = "CacheGet"
    /\ ret.via = "fast"
    /\ ret.val.err # Nil
    /\ calls[ret.arg] >= 2

\* C10: between two Clear calls CompilePattern runs at most once per text.
C10_CompileOnce == \A t \in PatternTexts : epochComp[t] <= 1

\* C10 witness: a Get that missed on the fast path found, under the write
\* lock, the result a concurrent winner had stored, and returned it; the text
\* was compiled once.
C10_Witness ==
    /\ ret.op = "CacheGet"
    /\ ret.via = "recheck"
    /\ epochComp[ret.arg] = 1
    /\ compiles[ret.arg] = 1
    /\ \E g \in Procs : cpc[g] = "slow" /\ ctext[g] # ret.arg

NameSet(rules) == {rules[i].Rule.Name : i \in 1..Len(rules)}

\* C12: r.Merge(s) leaves in r, under every name of s, s's compiled rule and,
\* under every name only r had, r's rule; r's size is the number of distinct
\* names of both, r is sorted and s is unchanged; Merge(nil) changes nothing.
C12_MergeOverrides ==
    [][ret'.op = "Merge" =>
           IF ret'.arg = NilRegistry THEN regs' = regs
           ELSE LET r == regs[ret'.reg]
                    src == regs[ret'.arg]
                    after == regs'[ret'.reg]
                IN  /\ \A i \in 1..Len(src) : Get(after, src[i].Rule.Name) = src[i]
                    /\ \A i \in 1..Len(r) :
                           r[i].Rule.Name \notin NameSet(src) =>
                               Get(after, r[i].Rule.Name) = r[i]
                    /\ Size(after) = Cardinality(NameSet(r) \cup NameSet(src))
                    /\ Sorted(after)
                    /\ regs'[ret'.arg] = regs[ret'.arg]]_vars

\* C12 witness: a Merge of the two rules of s into r left r with three rules,
\* b its own and a and c those of s.
C12_Witness ==
    /\ ret.op = "Merge"
    /\ ret.arg = "s"
    /\ Len(regs["s"]) = 2
    /\ Len(regs["r"]) = 3
    /\ Get(regs["r"], "b") # Nil
    /\ Get(regs["r"], "a") = Get(regs["s"], "a")
    /\ Get(regs["r"], "c") = Get(regs["s"], "c")

\* The rule list of the registry built from base and merged with the registry
\* built from override; valid tells whether Add accepted every rule of both.
RegistryMerge(base, override) ==
    LET b == AddAll(NewRegistry, base, CurK)
        o == AddAll(NewRegistry, override, b.K)
    IN  IF b.err # Nil \/ o.err # Nil THEN [valid |-> FALSE, rules |-> <<>>]
        ELSE LET m == MergeLocked(b.rules, o.rules)
             IN  [valid |-> TRUE, rules |-> [i \in 1..Len(m) |-> m[i].Rule]]

\* C13: MergeRules returns one rule per distinct name, override's where the
\* name occurs in override and base's otherwise, by descending priority and then
\* ascending name; for rules Add accepts it is the rule list of the registry
\* built from base and merged with the registry built from override.
C13_MergeRulesAsRegistry ==
    ret.op = "MergeRules" =>
        LET base == ret.base
            override == ret.override
            val == ret.val
            names(l) == {l[i].Name : i \in 1..Len(l)}
        IN  /\ \A i, j \in 1..Len(val) : val[i].Name = val[j].Name => i = j
            /\ names(val) = names(base) \cup names(override)
            /\ \A i \in 1..Len(val) :
                   IF val[i].Name \in names(override)
                   THEN \E k \in 1..Len(override) : override[k] = val[i]
                   ELSE \E k \in 1..Len(base) : base[k] = val[i]
            /\ \A i, j \in 1..Len(val) :
                   i < j =>
                       \/ val[i].Priority > val[j].Priority
                       \/ /\ val[i].Priority = val[j].Priority
                          /\ CompareStrings(val[i].Name, val[j].Name) < 0
            /\ RegistryMerge(base, override).valid =>
                   val = RegistryMerge(base, override).rules

\* C13 witness: base and override, of two valid rules each, share the name a
\* with different rules, and MergeRules returned three rules.
C13_Witness ==
    /\ ret.op = "MergeRules"
    /\ Len(ret.base) = 2
    /\ Len(ret.override) = 2
    /\ Len(ret.val) = 3
    /\ RegistryMerge(ret.base, ret.override).valid
    /\ \E i, k \in 1..2 :
           /\ ret.base[i].Name = "a"
           /\ ret.override[k].Name = "a"
           /\ ret.base[i] # ret.override[k]

\* The k-th smallest element of a set of numbers.
Kth(S, k) == CHOOSE i \in S : Cardinality({j \in S : j <= i}) = k

\* C14: EvaluateAll returns one result for every enabled rule whose matcher
\* matches and for no other rule, in registry order, so the priorities never
\* increase along the list; for a nil or an empty registry the result is empty.
C14_EvaluateAllComplete ==
    ret.op = "EvaluateAll" =>
        IF evaluator.registry = NilRegistry THEN ret.val = <<>>
        ELSE LET rules == regs[evaluator.registry]
                 hits == EnabledHits(rules, ret.ctx)
             IN  /\ Len(ret.val) = Cardinality(hits)
                 /\ \A k \in 1..Len(ret.val) :
                        ret.val[k] =
                            [Matched |-> TRUE, Rule |-> rules[Kth(hits, k)].Rule,
                             Action |-> rules[Kth(hits, k)].Rule.Action.Type,
                             Message |-> rules[Kth(hits, k)].Rule.Action.Message,
                             Reference |-> rules[Kth(hits, k)].Rule.Action.Reference]
                 /\ \A k \in 1..(Len(ret.val) - 1) :
                        ret.val[k].Rule.Priority >= ret.val[k + 1].Rule.Priority
                 /\ rules = <<>> => ret.val = <<>>

\* C14 witness: EvaluateAll returned two results of different priority from a
\* registry of three rules, one of which does not match.
C14_Witness ==
    /\ ret.op = "EvaluateAll"
    /\ evaluator.registry = "r"
    /\ Len(regs["r"]) = 3
    /\ \A i \in 1..3 : regs["r"][i].Rule.Enabled
    /\ Len(ret.val) = 2
    /\ ret.val[1].Rule.Priority > ret.val[2].Rule.Priority

\* The validator-type rule: p is "*", or t is not empty and equals p, or t is
\* not empty, p ends in ".*" and t starts with what precedes the "*".
ValidatorTypeApplies(p, t) ==
    \/ p = "*"
    \/ t # "" /\ t = p
    \/ /\ t # ""
       /\ Len(Bytes(p)) >= 2
       /\ SubSeq(Bytes(p), Len(Bytes(p)) - 1, Len(Bytes(p))) = <<".", "*">>
       /\ HasPrefix(Bytes(t), SubSeq(Bytes(p), 1, Len(Bytes(p)) - 1))

\* C15: FilterByValidator(t) returns, in registry order, exactly the enabled
\* rules with no validator-type condition or with one that applies to t; the
\* rule's other conditions play no part.
C15_FilterByValidatorType ==
    ret.op = "FilterByValidator" =>
        IF evaluator.registry = NilRegistry THEN ret.val = <<>>
        ELSE LET rules == regs[evaluator.registry]
                 keep == {i \in 1..Len(rules) :
                              /\ rules[i].Rule.Enabled
                              /\ \/ rules[i].Rule.Match = Nil
                                 \/ /\ rules[i].Rule.Match # Nil
                                    /\ \/ rules[i].Rule.Match.ValidatorType = ""
                                       \/ ValidatorTypeApplies(
                                              rules[i].Rule.Match.ValidatorType, ret.arg)}
             IN  /\ Len(ret.val) = Cardinality(keep)
                 /\ \A k \in 1..Len(ret.val) : ret.val[k] = rules[Kth(keep, k)]

\* C15 witness: FilterByValidator("git.push") returned the rule on "git.*",
\* which also asks for remote origin, and a rule with no validator-type
\* condition, and left out the rule on "file.markdown".
C15_Witness ==
    /\ ret.op = "FilterByValidator"
    /\ ret.arg = "git.push"
    /\ evaluator.registry = "r"
    /\ Len(regs["r"]) = 3
    /\ Len(ret.val) = 2
    /\ ret.val[1].Rule.Match = OnGit
    /\ ret.val[2].Rule.Match = Nil \/ ret.val[2].Rule.Match = OnOrigin
    /\ \E i \in 1..3 : regs["r"][i].Rule.Match = OnMarkdown

\* The answers of the children of the composite call c, in order.
ChildAnswers(c) == [i \in 1..Len(c.children) |-> Match(c.children[i], c.ctx)]

\* C16: an OR matcher matches a context exactly when at least one of its
\* children matches it; with zero children it matches no context.
C16_OrMatchesAny ==
    (ret.op = "Match" /\ ret.call.family = "composite" /\ ret.call.op = "OR") =>
        ret.val = (\E i \in 1..Len(ret.call.children) : ChildAnswers(ret.call)[i])

\* C17: an AND matcher matches a context exactly when every one of its
\* children matches it; with zero children it matches every context.
C17_AndMatchesAll ==
    (ret.op = "Match" /\ ret.call.family = "composite" /\ ret.call.op = "AND") =>
        /\ ret.val = (\A i \in 1..Len(ret.call.children) : ChildAnswers(ret.call)[i])
        /\ Len(ret.call.children) = 0 => ret.val

\* C17 witness: an AND of two children, the first matching and the second
\* not, did not match.
C17_Witness ==
    /\ ret.op = "Match"
    /\ ret.call.family = "composite"
    /\ ret.call.op = "AND"
    /\ Len(ret.call.children) = 2
    /\ ChildAnswers(ret.call)[1]
    /\ ~ChildAnswers(ret.call)[2]
    /\ ~ret.val

\* The context's own value for a pattern matcher of the kind, "" when absent.
OwnValue(kind, ctx) ==
    CASE kind = "repo_pattern" ->
            IF ctx.GitContext = Nil THEN "" ELSE ctx.GitContext.RepoRoot
      [] kind = "branch_pattern" ->
            IF ctx.GitContext = Nil THEN "" ELSE ctx.GitContext.Branch
      [] kind = "file_pattern" ->
            IF ctx.FileContext = Nil THEN "" ELSE ctx.FileContext.Path
      [] kind = "content_pattern" ->
            IF ctx.FileContext = Nil THEN "" ELSE ctx.FileContext.Content
      [] kind = "command_pattern" -> ctx.Command

\* The hook context's value for a file, content or command matcher.
HookValue(kind, ctx) ==
    CASE kind = "file_pattern" -> ctx.HookContext.FilePath
      [] kind = "content_pattern" -> ctx.HookContext.Content
      [] kind = "command_pattern" -> ctx.HookContext.Command

FallbackKinds == {"file_pattern", "content_pattern", "command_pattern"}

\* The value a pattern matcher reads: its own field, or for file, content and
\* command the hook context's when the own one is absent or empty.
ValueRead(kind, ctx) ==
    IF OwnValue(kind, ctx) # "" THEN OwnValue(kind, ctx)
    ELSE IF kind \in FallbackKinds /\ ctx.HookContext # Nil THEN HookValue(kind, ctx)
    ELSE ""

\* C18: a repository, branch, file, content or command matcher returns true
\* exactly when the value it reads is not empty and its pattern matches it.
C18_PatternMatcherNonEmpty ==
    (ret.op = "Match" /\ ret.call.family = "pattern") =>
        ret.val = (/\ ValueRead(ret.call.kind, ret.call.ctx) # ""
                   /\ PatternMatch(ret.matcher.pattern,
                                   ValueRead(ret.call.kind, ret.call.ctx)))

\* C19: a validator-type matcher configured with p matches validator type t
\* exactly when p is "*", or t is not empty and equals p, or t is not empty, p
\* ends in ".*" and t starts with p's category and a dot.
C19_ValidatorTypeRule ==
    (ret.op = "Match" /\ ret.call.family = "validator_type") =>
        /\ ret.val = ValidatorTypeApplies(ret.call.pattern, ret.call.ctx.ValidatorType)
        /\ (ret.call.ctx.ValidatorType = "" /\ ret.val) => ret.call.pattern = "*"
        /\ ret.call.pattern = "git.*" =>
               ret.val = (ret.call.ctx.ValidatorType \in {"git.push", "git.commit"})

\* C19 witness: the matcher on "git.*" matched git.commit.
C19_Witness ==
    /\ ret.op = "Match"
    /\ ret.call.family = "validator_type"
    /\ ret.call.pattern = "git.*"
    /\ ret.call.ctx.ValidatorType = "git.commit"
    /\ ret.val

\* C20: a file, content or command matcher whose own context value is not
\* empty answers for that value whatever the hook context holds; otherwise it
\* answers for the hook context's value, and false when there is no hook context.
C20_HookFallbackOnly ==
    (ret.op = "Match" /\ ret.call.family = "pattern"
        /\ ret.call.kind \in FallbackKinds) =>
        LET own == OwnValue(ret.call.kind, ret.call.ctx)
        IN  IF own # "" THEN ret.val = PatternMatch(ret.matcher.pattern, own)
            ELSE IF ret.call.ctx.HookContext = Nil THEN ret.val = FALSE
            ELSE ret.val = PatternMatch(ret.matcher.pattern,
                                        HookValue(ret.call.kind, ret.call.ctx))

\* C20 witness: a file matcher on "main" did not match a context whose own
\* file path is dev although the hook context's file path is main.
C20_Witness ==
    /\ ret.op = "Match"
    /\ ret.call.family = "pattern"
    /\ ret.call.kind = "file_pattern"
    /\ ret.call.pattern = "main"
    /\ ret.call.ctx.FileContext # Nil
    /\ ret.call.ctx.HookContext # Nil
    /\ OwnValue("file_pattern", ret.call.ctx) = "dev"
    /\ HookValue("file_pattern", ret.call.ctx) = "main"
    /\ ~ret.val

(***************************************************************************)
(* C21: a remote, repository-pattern or branch-pattern matcher answers     *)
(* false about every context that has no git context, whatever remote or   *)
(* pattern it was built with.                                              *)
(***************************************************************************)
GitKinds == {"remote", "repo_pattern", "branch_pattern"}

C21_NoGitContextNoMatch ==
    (/\ ret.op = "Match"
     /\ ret.matcher.kind \in GitKinds
     /\ ret.call.ctx.GitContext = Nil)
        => ret.val = FALSE

\* A branch matcher on .* asked about a context with a hook context only.
C21_Witness ==
    /\ ret.op = "Match"
    /\ ret.matcher.kind = "branch_pattern"
    /\ ret.matcher.pattern.pattern = ".*"
    /\ ret.call.ctx.GitContext = Nil
    /\ ret.call.ctx.HookContext # Nil
    /\ ret.val = FALSE

(***************************************************************************)
(* C22: over a nil, empty, all-disabled or populated registry and about a  *)
(* context whose git, file and hook parts may each be absent, Evaluate,    *)
(* EvaluateAll, FindMatchingRules and FilterByValidator return without a   *)
(* panic, and Evaluate returns a RuleResult: the first matching rule's, or *)
(* the unmatched one with the default action.                              *)
(***************************************************************************)
EvaluatorOps == {"Evaluate", "EvaluateAll", "FindMatchingRules", "FilterByValidator"}

IsRuleResult(v) ==
    /\ v # Nil
    /\ DOMAIN v = {"Matched", "Rule", "Action", "Message", "Reference"}
    /\ v.Matched \in BOOLEAN
    /\ v.Action \in {"allow", "warn", "block"}
    /\ ~v.Matched => v.Action = evaluator.defaultAction

C22_EvaluatorNeverFails ==
    ret.op \in EvaluatorOps
        => /\ ret.panic = FALSE
           /\ ret.op = "Evaluate" => IsRuleResult(ret.val)

AllDisabled(rules) ==
    /\ Len(rules) > 0
    /\ \A i \in 1..Len(rules) : ~rules[i].Rule.Enabled

\* Evaluate over a registry holding the rule on tool type and file pattern,
\* asked about a context with no git, file or hook part.
C22_Witness ==
    /\ ret.op = "Evaluate"
    /\ evaluator.registry = "r"
    /\ \E i \in 1..Len(regs["r"]) :
           /\ regs["r"][i].Rule.Enabled
           /\ regs["r"][i].Rule.Match = OnBashFile
    /\ ret.ctx.GitContext = Nil
    /\ ret.ctx.FileContext = Nil
    /\ ret.ctx.HookContext = Nil
    /\ ret.panic = FALSE
    /\ ret.val.Matched = FALSE

(***************************************************************************)
(* C23: a rule registered with no match block, or with a match block whose *)
(* fields are all empty, holds the always-true matcher; while it is        *)
(* enabled it is among the rules matching any context, a context with no   *)
(* git, file or hook part included.                                        *)
(***************************************************************************)
Unconditional(compiled) == compiled.Rule.Match \in {Nil, NoConditions}

C23_NoConditionsMatchAll ==
    /\ \A i \in 1..Len(regs["r"]) :
           Unconditional(regs["r"][i]) => regs["r"][i].Matcher = AlwaysMatcher
    /\ (ret.op = "FindMatchingRules" /\ evaluator.registry = "r")
           => \A i \in 1..Len(regs["r"]) :
                  (Unconditional(regs["r"][i]) /\ regs["r"][i].Rule.Enabled)
                      => \E k \in 1..Len(ret.val) : ret.val[k] = regs["r"][i].Rule

\* The rule with an empty match block found for the context without parts.
C23_Witness ==
    /\ ret.op = "FindMatchingRules"
    /\ evaluator.registry = "r"
    /\ ret.ctx.GitContext = Nil
    /\ ret.ctx.FileContext = Nil
    /\ ret.ctx.HookContext = Nil
    /\ \E i \in 1..Len(regs["r"]) :
           /\ regs["r"][i].Rule.Match = NoConditions
           /\ regs["r"][i].Matcher = AlwaysMatcher
           /\ \E k \in 1..Len(ret.val) : ret.val[k] = regs["r"][i].Rule

(***************************************************************************)
(* C24: BuildMatcher returns no matcher and no error for a nil or          *)
(* all-empty condition set; for exactly one non-empty condition the leaf   *)
(* matcher of that condition itself, named as the leaf is; for two or more *)
(* an AND matcher that matches a context exactly when the leaf of every    *)
(* given condition matches it.                                             *)
(***************************************************************************)
\* The name Matcher.Name gives the leaf of condition field f.
LeafPrefix(f) ==
    CASE f = "ValidatorType" -> "validator_type:"
      [] f = "Remote" -> "remote:"
      [] f = "ToolType" -> "tool_type:"
      [] f = "EventType" -> "event_type:"
      [] f = "RepoPattern" -> "repo_pattern:"
      [] f = "BranchPattern" -> "branch_pattern:"
      [] f = "FilePattern" -> "file_pattern:"
      [] f = "ContentPattern" -> "content_pattern:"
      [] f = "CommandPattern" -> "command_pattern:"

\* The leaf matcher of condition field f built on its own with text v.
LeafOf(f, v) ==
    CASE f = "ValidatorType" -> NewValidatorTypeMatcher(v)
      [] f = "Remote" -> NewRemoteMatcher(v)
      [] f = "ToolType" -> NewToolTypeMatcher(v)
      [] f = "EventType" -> NewEventTypeMatcher(v)
      [] f = "RepoPattern" -> NewCachedPatternMatcher("repo_pattern", v, CurK).matcher
      [] f = "BranchPattern" -> NewCachedPatternMatcher("branch_pattern", v, CurK).matcher
      [] f = "FilePattern" -> NewCachedPatternMatcher("file_pattern", v, CurK).matcher
      [] f = "ContentPattern" -> NewContentPatternMatcher(v, CurK).matcher
      [] f = "CommandPattern" -> NewCachedPatternMatcher("command_pattern", v, CurK).matcher

\* The non-empty condition fields of a condition set.
Given(match) ==
    IF match = Nil THEN {}
    ELSE {f \in DOMAIN match : match[f] # ""}

C24_BuildMatcherShape ==
    (ret.op = "BuildMatcher" /\ ret.err = Nil)
        => LET given == Given(ret.match)
           IN  /\ given = {} => ret.matcher = Nil
               /\ Cardinality(given) = 1 =>
                      \A f \in given :
                          /\ ret.matcher # Nil
                          /\ ret.matcher.kind = LeafOf(f, ret.match[f]).kind
                          /\ Name(ret.matcher) = LeafPrefix(f) \o ret.match[f]
               /\ Cardinality(given) >= 2 =>
                      /\ ret.matcher # Nil
                      /\ Name(ret.matcher) = "AND"
                      /\ \A ctx \in PartContexts :
                             Match(ret.matcher, ctx)
                                 <=> \A f \in given : Match(LeafOf(f, ret.match[f]), ctx)

\* One condition, the remote: the remote matcher itself.
C24_Witness ==
    /\ ret.op = "BuildMatcher"
    /\ ret.err = Nil
    /\ Given(ret.match) = {"Remote"}
    /\ Name(ret.matcher) = "remote:origin"

(***************************************************************************)
(* C25: when a pattern of the condition set fails to compile, BuildMatcher *)
(* returns the error of the first failing pattern in the order repository, *)
(* branch, file, content, command, and no matcher, whatever the other      *)
(* conditions are; it returns no error when every pattern compiles.        *)
(***************************************************************************)
PatternFieldOrder ==
    <<"RepoPattern", "BranchPattern", "FilePattern", "ContentPattern", "CommandPattern">>

\* Whether text v of pattern field f fails to compile.
CompileFails(f, v) ==
    IF v = "" THEN FALSE
    ELSE IF f = "ContentPattern" THEN NewRegexPattern(v, 0).err # Nil
    ELSE CompilePattern(v, 0).err # Nil

Failing(match) ==
    IF match = Nil THEN {}
    ELSE {i \in 1..Len(PatternFieldOrder) :
             CompileFails(PatternFieldOrder[i], match[PatternFieldOrder[i]])}

C25_FirstCompileError ==
    ret.op = "BuildMatcher"
        => LET failing == Failing(ret.match)
           IN  IF failing = {} THEN ret.err = Nil
               ELSE LET first == CHOOSE i \in failing : \A j \in failing : i <= j
                    IN  /\ ret.err # Nil
                        /\ ret.err.text = ret.match[PatternFieldOrder[first]]
                        /\ ret.matcher = Nil

\* The branch and the command pattern fail, the remote and the repository
\* pattern are valid: the branch pattern's error comes back.
C25_Witness ==
    /\ ret.op = "BuildMatcher"
    /\ ret.match # Nil
    /\ ret.match.Remote = "origin"
    /\ ret.match.RepoPattern = "main"
    /\ Failing(ret.match) = {2, 5}
    /\ ret.err # Nil
    /\ ret.err.text = "[a"
    /\ ret.matcher = Nil

(***************************************************************************)
(* C26: AddAll adds the rules in list order and stops at the first rule    *)
(* whose Add fails, returning that error: the rules before it are          *)
(* registered (for a name given twice the later rule), the rules after it  *)
(* are not added, and every other entry stays as it was.                   *)
(***************************************************************************)
\* Whether Add rejects the rule.
AddFails(rule) == AddPrepare(rule, CurK).err # Nil

\* The number of leading rules of the list AddAll gets through: up to the
\* first one Add rejects, the whole list when there is none.
Accepted(list) ==
    LET bad == {i \in 1..Len(list) : AddFails(list[i])}
    IN  IF bad = {} THEN Len(list)
        ELSE (CHOOSE i \in bad : \A j \in bad : i <= j) - 1

\* The entry of the registry under a name, Nil for none.
EntryOf(rules, name) ==
    IF IndexOfName(rules, name) = 0 THEN Nil
    ELSE rules[IndexOfName(rules, name)]

C26_AddAllStopsAtFirstError ==
    [][ret'.op = "AddAll" =>
           LET list == ret'.list
               n == Accepted(list)
           IN  /\ (ret'.val.err = Nil) <=> (n = Len(list))
               /\ n < Len(list) =>
                      ret'.val.err.msg = AddPrepare(list[n + 1], CurK).err.msg
               /\ \A name \in Names :
                      LET given == {i \in 1..n : list[i].Name = name}
                      IN  IF given = {}
                          THEN EntryOf(regs'["r"], name) = EntryOf(regs["r"], name)
                          ELSE /\ EntryOf(regs'["r"], name) # Nil
                               /\ EntryOf(regs'["r"], name).Rule
                                      = list[CHOOSE i \in given : \A j \in given : j <= i]
               /\ regs'["s"] = regs["s"]]_vars

\* AddAll of a valid rule a, then the rule c that does not compile, then a
\* valid rule b, on a registry without b: a is registered, b is not.
C26_Witness ==
    /\ ret.op = "AddAll"
    /\ Len(ret.list) = 3
    /\ ret.list[1].Name = "a" /\ ret.list[2].Name = "c" /\ ret.list[3].Name = "b"
    /\ ret.val.err # Nil
    /\ EntryOf(regs["r"], "a") # Nil
    /\ EntryOf(regs["r"], "a").Rule = ret.list[1]
    /\ EntryOf(regs["r"], "b") = Nil

(***************************************************************************)
(* C27: Remove(name) returns true exactly when a rule of that name is      *)
(* registered, and then the registry holds no entry of that name; every    *)
(* other entry stays, in the same relative order, and so does the other    *)
(* registry.                                                               *)
(***************************************************************************)
C27_RemoveFrame ==
    [][ret'.op = "Remove" =>
           /\ ret'.val.found
                  <=> \E i \in 1..Len(regs["r"]) : regs["r"][i].Rule.Name = ret'.arg
           /\ regs'["r"]
                  = SelectSeq(regs["r"], LAMBDA compiled : compiled.Rule.Name # ret'.arg)
           /\ ~ret'.val.found => regs'["r"] = regs["r"]
           /\ regs'["s"] = regs["s"]]_vars

\* A rule was removed from among three, the two others remain.
C27_Witness ==
    /\ ret.op = "Remove"
    /\ ret.val.found
    /\ Len(regs["r"]) = 2
    /\ IndexOfName(regs["r"], ret.arg) = 0
    /\ regs["r"][1].Rule.Priority = regs["r"][2].Rule.Priority
    /\ ret.arg = "a"

(***************************************************************************)
(* C28: Size is the number of distinct texts compiled with success since   *)
(* the cache was built or last cleared.  A Get that completes for a valid  *)
(* text the cache does not hold raises Size by exactly one; every other    *)
(* step of a Get (a repeated Get, a Get of a text that does not compile)   *)
(* leaves it as it is.                                                     *)
(***************************************************************************)
Compiles(t) == CompilePattern(t, 0).err = Nil

\* A goroutine finishes the slow path of its Get in this step.
SlowDone(g) == cpc[g] = "slow" /\ cpc'[g] = "idle"

C28_SizeCountsCompiled ==
    [][/\ CacheSize(cache')
              = Cardinality({t \in PatternTexts : epochComp'[t] > 0 /\ Compiles(t)})
       /\ clears' = clears =>
              CacheSize(cache')
                  = CacheSize(cache)
                        + (IF \E g \in Procs :
                                  /\ SlowDone(g)
                                  /\ cache.patterns[ctext[g]] = Nil
                                  /\ Compiles(ctext[g])
                           THEN 1 ELSE 0)]_vars

\* A second valid text was compiled while the cache holds an error as well.
C28_Witness ==
    /\ ret.op = "CacheGet"
    /\ ret.via = "compile"
    /\ ret.val.err = Nil
    /\ cache.errors["[invalid"] # Nil
    /\ calls[ret.arg] = 1
    /\ \E t \in CacheTexts : t # ret.arg /\ calls[t] = MaxCalls /\ Compiles(t)
    /\ CacheSize(cache) = 2

(***************************************************************************)
(* C29: Clear empties the map of compiled patterns and the map of cached   *)
(* errors, so Size is 0 right after it; and the first Get to complete for  *)
(* a text after a Clear compiles the text, whether the text had compiled   *)
(* or had failed before.                                                   *)
(***************************************************************************)
C29_ClearEmptiesBoth ==
    [][/\ clears' # clears =>
              /\ CacheSize(cache') = 0
              /\ \A t \in PatternTexts :
                     cache'.patterns[t] = Nil /\ cache'.errors[t] = Nil
       /\ (ret'.op = "CacheGet" /\ calls[ret'.arg] = 0 /\ calls'[ret'.arg] = 1) =>
              /\ ret'.via = "compile"
              /\ compiles'[ret'.arg] = compiles[ret'.arg] + 1]_vars

\* After a Clear the text that failed before was compiled a second time, and
\* so was a text that had compiled.
C29_Witness ==
    /\ clears = 1
    /\ ret.op = "CacheGet"
    /\ ret.arg = "[invalid"
    /\ ret.via = "compile"
    /\ compiles["[invalid"] = 2
    /\ compiles["main"] = 2
    /\ cache.patterns["main"] # Nil

(***************************************************************************)
(* C30: a content-pattern matcher holds its text compiled as a regular     *)
(* expression, also when DetectPatternType classifies the text as a glob,  *)
(* and it matches exactly when there is content to read (the file          *)
(* context's, or behind it the hook context's) and the regular expression  *)
(* finds a match somewhere in it.                                          *)
(***************************************************************************)
HasContent(ctx) ==
    OwnValue("content_pattern", ctx) # "" \/ ctx.HookContext # Nil

C30_ContentAlwaysRegex ==
    (ret.op = "Match" /\ ret.call.family = "pattern"
        /\ ret.call.kind = "content_pattern") =>
        /\ ret.matcher.kind = "content_pattern"
        /\ ret.matcher.pattern.kind = "regex"
        /\ ret.matcher.pattern.pattern = ret.call.pattern
        /\ ret.val <=>
               (/\ HasContent(ret.call.ctx)
                /\ RegexMatch([kind |-> "regex", pattern |-> ret.call.pattern],
                              ValueRead("content_pattern", ret.call.ctx)))

\* The text main, a glob to DetectPatternType, found inside the content domain.
C30_Witness ==
    /\ ret.op = "Match"
    /\ ret.call.family = "pattern"
    /\ ret.call.kind = "content_pattern"
    /\ ret.call.pattern = "main"
    /\ DetectPatternType(ret.call.pattern) = "glob"
    /\ ret.call.ctx.FileContext # Nil
    /\ ret.call.ctx.FileContext.Content = "domain"
    /\ ret.val = TRUE

(***************************************************************************)
(* C31: DetectPatternType answers regex exactly when the text contains one *)
(* of the sixteen indicator substrings and glob otherwise, and             *)
(* CompilePattern hands the text to the compiler of the detected type.     *)
(***************************************************************************)
SixteenIndicators ==
    {"^", "$", "(?", "\\d", "\\w", "\\s", "\\b", "[", "]", "(", ")", "|", "+",
     ".*", ".+", "\\."}

\* Whether sub occurs in text, both strings.
Occurs(sub, text) ==
    \E i \in 1..(Len(text) - Len(sub) + 1) : SubSeq(text, i, i + Len(sub) - 1) = sub

ExpectedType(text) ==
    IF \E ind \in SixteenIndicators : Occurs(ind, text) THEN "regex" ELSE "glob"

LowerChar(ch) ==
    CASE ch = "A" -> "a" [] ch = "B" -> "b" [] ch = "E" -> "e" [] ch = "H" -> "h"
      [] ch = "I" -> "i" [] ch = "L" -> "l" [] ch = "O" -> "o" [] ch = "P" -> "p"
      [] ch = "R" -> "r" [] ch = "S" -> "s" [] ch = "T" -> "t" [] ch = "U" -> "u"
      [] ch = "W" -> "w" [] OTHER -> ch

\* Equal strings up to letter case, character by character.
SameIgnoringCase(x, y) ==
    /\ Len(x) = Len(y)
    /\ \A i \in 1..Len(x) : LowerChar(SubSeq(x, i, i)) = LowerChar(SubSeq(y, i, i))

HookField(call) ==
    IF call.kind = "tool_type" THEN call.ctx.HookContext.ToolName
    ELSE call.ctx.HookContext.EventType

C32_HookTypeIgnoresCase ==
    (ret.op = "Match" /\ ret.call.family = "hook_type") =>
        /\ ret.matcher.kind = ret.call.kind
        /\ ret.val <=>
               (IF ret.call.ctx.HookContext = Nil THEN FALSE
                ELSE SameIgnoringCase(HookField(ret.call), ret.call.configured))

\* The matcher on BASH matched the tool Bash.
C32_Witness ==
    /\ ret.op = "Match"
    /\ ret.call.family = "hook_type"
    /\ ret.call.kind = "tool_type"
    /\ ret.call.configured = "BASH"
    /\ ret.call.ctx.HookContext # Nil
    /\ ret.call.ctx.HookContext.ToolName = "Bash"
    /\ ret.val = TRUE

(***************************************************************************)
(* pkg/pipelineblock: the pipeline block marker.  Time is counted in ticks *)
(* of the wall clock; a Duration is a number of ticks.                     *)
(***************************************************************************)
MaxClock == 3
TicksPerSecond == 2

\* Duration.Seconds followed by the conversion to int, which truncates
\* toward zero.
Seconds(d) == IF d >= 0 THEN d \div TicksPerSecond ELSE -((-d) \div TicksPerSecond)

NewManager(markerPath, ttl, enabled) ==
    [markerPath |-> markerPath, ttl |-> ttl, enabled |-> enabled]

TTLs == {-1, 0, 1, 3}
Managers == {NewManager("block-marker", ttl, enabled) : ttl \in TTLs, enabled \in BOOLEAN}

\* A file that is not the JSON of a Marker.
Garbage == [kind |-> "garbage"]

\* json.MarshalIndent of a Marker: the fields under their JSON names.
Marshal(marker) ==
    [kind |-> "json", created_at |-> marker.CreatedAt, expires_at |-> marker.ExpiresAt,
     error_code |-> marker.ErrorCode, validator |-> marker.Validator,
     message |-> marker.Message, ttl_seconds |-> marker.TTLSeconds]

\* json.Unmarshal into a Marker.
Unmarshal(data) ==
    IF data.kind = "json"
    THEN [err |-> FALSE,
          marker |-> [CreatedAt |-> data.created_at, ExpiresAt |-> data.expires_at,
                      ErrorCode |-> data.error_code, Validator |-> data.validator,
                      Message |-> data.message, TTLSeconds |-> data.ttl_seconds]]
    ELSE [err |-> TRUE, marker |-> Nil]

\* Manager.SetBlockMarker at time t: the file it leaves at markerPath.
SetBlockMarker(m, errorCode, validator, message, data, t) ==
    IF ~m.enabled THEN data
    ELSE Marshal([CreatedAt |-> t, ExpiresAt |-> t + m.ttl, ErrorCode |-> errorCode,
                  Validator |-> validator, Message |-> message,
                  TTLSeconds |-> Seconds(m.ttl)])

\* Manager.ClearBlockMarker: the file it leaves at markerPath.
ClearBlockMarker(m, data) == IF ~m.enabled THEN data ELSE NoFile

\* A check that never looks at ExpiresAt.
MutCheckBlockMarkerNoExpiry(m, data, t, env) ==
    IF ~m.enabled THEN [marker |-> Nil, valid |-> FALSE, file |-> data]
    ELSE IF env # "" THEN [marker |-> Nil, valid |-> FALSE, file |-> ClearBlockMarker(m, data)]
    ELSE IF data = NoFile THEN [marker |-> Nil, valid |-> FALSE, file |-> data]
    ELSE IF Unmarshal(data).err
         THEN [marker |-> Nil, valid |-> FALSE, file |-> ClearBlockMarker(m, data)]
    ELSE [marker |-> Unmarshal(data).marker, valid |-> TRUE, file |-> data]

\* Manager.CheckBlockMarker at time t with the clear variable holding env:
\* the marker and flag it returns and the file it leaves at markerPath.
CheckBlockMarker(m, data, t, env) ==
    IF ~m.enabled THEN [marker |-> Nil, valid |-> FALSE, file |-> data]
    ELSE IF env # "" THEN [marker |-> Nil, valid |-> FALSE, file |-> ClearBlockMarker(m, data)]
    ELSE IF data = NoFile THEN [marker |-> Nil, valid |-> FALSE, file |-> data]
    ELSE IF Unmarshal(data).err
         THEN [marker |-> Nil, valid |-> FALSE, file |-> ClearBlockMarker(m, data)]
    ELSE IF t > Unmarshal(data).marker.ExpiresAt
         THEN [marker |-> Nil, valid |-> FALSE, file |-> ClearBlockMarker(m, data)]
    ELSE [marker |-> Unmarshal(data).marker, valid |-> TRUE, file |-> data]

ErrorCodes == {"GIT019", "GIT022"}

SetBlockMarkerAct(m, errorCode) ==
    /\ markerFile' = SetBlockMarker(m, errorCode, "validate-git-push",
                                    "Force push blocked", markerFile, clock)
    /\ ret' = [op |-> "SetBlockMarker", mgr |-> m, now |-> clock, val |-> Nil]
    /\ UNCHANGED <<clock, environ>>
    /\ UNCHANGED <<cacheVars, regVars, mu>>

CheckBlockMarkerAct(m) ==
    /\ \E r \in {CheckBlockMarker(m, markerFile, clock, environ)} :
           /\ markerFile' = r.file
           /\ ret' = [op |-> "CheckBlockMarker", mgr |-> m, now |-> clock,
                      env |-> environ, file |-> markerFile,
                      marker |-> r.marker, valid |-> r.valid]
    /\ UNCHANGED <<clock, environ>>
    /\ UNCHANGED <<cacheVars, regVars, mu>>

ClearBlockMarkerAct(m) ==
    /\ markerFile' = ClearBlockMarker(m, markerFile)
    /\ ret' = [op |-> "ClearBlockMarker", mgr |-> m, now |-> clock, val |-> Nil]
    /\ UNCHANGED <<clock, environ>>
    /\ UNCHANGED <<cacheVars, regVars, mu>>

\* The wall clock advances.
Tick ==
    /\ clock < MaxClock
    /\ clock' = clock + 1
    /\ ret' = [op |-> "Tick", now |-> clock + 1]
    /\ UNCHANGED <<markerFile, environ>>
    /\ UNCHANGED <<cacheVars, regVars, mu>>

\* The user sets or unsets KLAUDIUSH_CLEAR_PIPELINE_BLOCK.
Setenv(value) ==
    /\ environ # value
    /\ environ' = value
    /\ ret' = [op |-> "Setenv", val |-> value]
    /\ UNCHANGED <<markerFile, clock>>
    /\ UNCHANGED <<cacheVars, regVars, mu>>

\* Something else writes the marker path, as the tests do with "test".
WriteFile ==
    /\ markerFile # Garbage
    /\ markerFile' = Garbage
    /\ ret' = [op |-> "WriteFile", val |-> Garbage]
    /\ UNCHANGED <<clock, environ>>
    /\ UNCHANGED <<cacheVars, regVars, mu>>

NextMarker ==
    \/ \E m \in Managers, errorCode \in ErrorCodes : SetBlockMarkerAct(m, errorCode)
    \/ \E m \in Managers : CheckBlockMarkerAct(m)
    \/ \E m \in Managers : ClearBlockMarkerAct(m)
    \/ Tick
    \/ \E value \in {"", "1"} : Setenv(value)
    \/ WriteFile

SpecMarker == Init /\ [][NextMarker]_vars

\* The marker file was written by SetBlockMarker of some manager.
WrittenBy(data, m) ==
    /\ data.expires_at = data.created_at + m.ttl
    /\ data.ttl_seconds = Seconds(m.ttl)

\* A check by manager m reports a marker as valid only in the listed case.
ValidOnlyWhen ==
    (ret'.op = "CheckBlockMarker" /\ ret'.valid) =>
        /\ ret'.mgr.enabled
        /\ environ = ""
        /\ markerFile.kind = "json"
        /\ \E m \in Managers : WrittenBy(markerFile, m)
        /\ clock <= markerFile.expires_at
        /\ ret'.marker = Unmarshal(markerFile).marker
        /\ markerFile' = markerFile

\* The cases in which the check is to remove the file.
ToRemove ==
    \/ environ # ""
    \/ markerFile = Garbage
    \/ markerFile.kind = "json" /\ clock > markerFile.expires_at

MutRLockOKAlways(m) == TRUE

\* Mutant: RUnlock leaves the read lock held.
MutRUnlockNone(m, g) == m

\* RLock returns when no goroutine holds the write lock and none is blocked
\* in Lock.
RLockOK(m) == m.w = "" /\ m.waiting = {}

RLock(m, g) == [m EXCEPT !.r = @ \cup {g}]

RUnlock(m, g) == [m EXCEPT !.r = @ \ {g}]

\* Lock has been called: from now on new readers block.
LockWait(m, g) == [m EXCEPT !.waiting = @ \cup {g}]

\* Lock returns when there is neither a writer nor a reader.
LockOK(m) == m.w = "" /\ m.r = {}

Lock(m, g) == [m EXCEPT !.w = g, !.waiting = @ \ {g}]

Unlock(m, g) == [m EXCEPT !.w = ""]

ReadOps == {"Get", "GetAll", "GetEnabled", "Size"}
WriteOps == {"Add", "Remove", "Merge", "Clear"}

\* Goroutine h is between Lock and Unlock of registry id.
InSection(h, id) ==
    /\ pend[h] # Nil
    /\ pend[h].op \in WriteOps
    /\ pend[h].reg = id
    /\ pend[h].pc \in {"store", "delete", "clear", "merge", "sort", "unlock"}

\* A read is called (Get, GetAll, GetEnabled, Size up to the RLock).  overlap
\* tells whether a writer was in the middle of its change then.
ReadCall(g, id, op, name) ==
    /\ pend[g] = Nil
    /\ pend' = [pend EXCEPT ![g] =
                    [op |-> op, reg |-> id, name |-> name, pc |-> "rlock", obs |-> <<>>,
                     overlap |-> \E h \in Procs : InSection(h, id) /\ regs[id] # pend[h].before]]
    /\ UNCHANGED <<regs, evaluator, opts, mu, ret, markerVars>>
    /\ UNCHANGED cacheVars

\* r.mu.RLock() returns.
ReadRLock(g) ==
    /\ pend[g] # Nil
    /\ pend[g].pc = "rlock"
    /\ pend[g].op \in ReadOps
    /\ RLockOK(mu[pend[g].reg])
    /\ mu' = [mu EXCEPT ![pend[g].reg] = RLock(@, g)]
    /\ pend' = [pend EXCEPT ![g].pc = "read"]
    /\ UNCHANGED <<regs, evaluator, opts, ret, markerVars>>
    /\ UNCHANGED cacheVars

\* The read has no further element to load: Size loads none, Get stops at the
\* name, the others at the end of the list.
ReadDone(p, rules) ==
    \/ p.op = "Size"
    \/ Len(p.obs) >= Len(rules)
    \/ p.op = "Get" /\ p.obs # <<>> /\ p.obs[Len(p.obs)].Rule.Name = p.name

\* The reader loads the next element of r.rules.
ReadNext(g) ==
    /\ pend[g] # Nil
    /\ pend[g].pc = "read"
    /\ ~ReadDone(pend[g], regs[pend[g].reg])
    /\ pend' = [pend EXCEPT ![g].obs = Append(@, regs[pend[g].reg][Len(@) + 1])]
    /\ UNCHANGED <<regs, evaluator, opts, mu, ret, markerVars>>
    /\ UNCHANGED cacheVars

\* What the read returns from the elements it loaded.
ReadValue(p, rules) ==
    CASE p.op = "Get" -> Get(p.obs, p.name)
      [] p.op = "GetAll" -> GetAll(p.obs)
      [] p.op = "GetEnabled" -> GetEnabled(p.obs)
      [] p.op = "Size" -> Size(rules)

\* The deferred RUnlock and the return.
ReadReturn(g) ==
    /\ pend[g] # Nil
    /\ pend[g].pc = "read"
    /\ ReadDone(pend[g], regs[pend[g].reg])
    /\ mu' = [mu EXCEPT ![pend[g].reg] = RUnlock(@, g)]
    /\ ret' = [op |-> pend[g].op, reg |-> pend[g].reg, arg |-> pend[g].name,
               obs |-> pend[g].obs, overlap |-> pend[g].overlap,
               val |-> ReadValue(pend[g], regs[pend[g].reg])]
    /\ pend' = [pend EXCEPT ![g] = Nil]
    /\ UNCHANGED <<regs, evaluator, opts, markerVars>>
    /\ UNCHANGED cacheVars

\* Add up to r.mu.Lock() (lines 210-233).
AddCall(g, id, rule) ==
    /\ pend[g] = Nil
    /\ \E p \in {AddPrepare(rule, CurK)} :
           /\ SetK(p.K)
           /\ IF p.err # Nil
              THEN /\ ret' = [op |-> "Add", reg |-> id, rule |-> rule,
                              val |-> [err |-> p.err]]
                   /\ UNCHANGED <<pend, mu>>
              ELSE /\ pend' = [pend EXCEPT ![g] =
                                   [op |-> "Add", reg |-> id, pc |-> "lock",
                                    compiled |-> p.compiled, before |-> <<>>]]
                   /\ mu' = [mu EXCEPT ![id] = LockWait(@, g)]
                   /\ ret' = ret
    /\ UNCHANGED <<regs, evaluator, opts, markerVars>>

\* Remove up to r.mu.Lock().
RemoveCall(g, id, name) ==
    /\ pend[g] = Nil
    /\ pend' = [pend EXCEPT ![g] = [op |-> "Remove", reg |-> id, pc |-> "lock",
                                    name |-> name, found |-> FALSE, before |-> <<>>]]
    /\ mu' = [mu EXCEPT ![id] = LockWait(@, g)]
    /\ UNCHANGED <<regs, evaluator, opts, ret, markerVars>>
    /\ UNCHANGED cacheVars

\* Clear up to r.mu.Lock().
ClearCall(g, id) ==
    /\ pend[g] = Nil
    /\ pend' = [pend EXCEPT ![g] = [op |-> "Clear", reg |-> id, pc |-> "lock",
                                    before |-> <<>>]]
    /\ mu' = [mu EXCEPT ![id] = LockWait(@, g)]
    /\ UNCHANGED <<regs, evaluator, opts, ret, markerVars>>
    /\ UNCHANGED cacheVars

\* Merge up to source.mu.RLock() (lines 364-368).
MergeCall(g, dst, source) ==
    /\ pend[g] = Nil
    /\ IF source = NilRegistry
       THEN /\ ret' = [op |-> "Merge", reg |-> dst, arg |-> source, val |-> Nil]
            /\ pend' = pend
       ELSE /\ pend' = [pend EXCEPT ![g] =
                            [op |-> "Merge", reg |-> dst, source |-> source,
                             pc |-> "rlock", sourceRules |-> <<>>, k |-> 1,
                             existing |-> ExistingMap(<<>>), before |-> <<>>]]
            /\ ret' = ret
    /\ UNCHANGED <<regs, evaluator, opts, mu, markerVars>>
    /\ UNCHANGED cacheVars

\* source.mu.RLock() returns and the source's rules are copied (368-370).
MergeRLock(g) ==
    /\ pend[g] # Nil
    /\ pend[g].pc = "rlock"
    /\ pend[g].op = "Merge"
    /\ RLockOK(mu[pend[g].source])
    /\ mu' = [mu EXCEPT ![pend[g].source] = RLock(@, g)]
    /\ pend' = [pend EXCEPT ![g].pc = "runlock",
                            ![g].sourceRules = regs[pend[g].source]]
    /\ UNCHANGED <<regs, evaluator, opts, ret, markerVars>>
    /\ UNCHANGED cacheVars

\* source.mu.RUnlock() and the call of r.mu.Lock() (371-373).
MergeRUnlock(g) ==
    /\ pend[g] # Nil
    /\ pend[g].pc = "runlock"
    /\ mu' = [mu EXCEPT ![pend[g].source] = RUnlock(@, g),
                        ![pend[g].reg] = LockWait(@, g)]
    /\ pend' = [pend EXCEPT ![g].pc = "lock"]
    /\ UNCHANGED <<regs, evaluator, opts, ret, markerVars>>
    /\ UNCHANGED cacheVars

\* r.mu.Lock() returns; Merge builds its map of the existing names (377-380).
AcquireLock(g) ==
    /\ pend[g] # Nil
    /\ pend[g].pc = "lock"
    /\ LockOK(mu[pend[g].reg])
    /\ mu' = [mu EXCEPT ![pend[g].reg] = Lock(@, g)]
    /\ pend' = [pend EXCEPT
                    ![g] = IF pend[g].op = "Merge"
                           THEN [@ EXCEPT !.pc = "merge", !.before = regs[pend[g].reg],
                                          !.existing = ExistingMap(regs[pend[g].reg])]
                           ELSE [@ EXCEPT !.pc = CASE pend[g].op = "Add" -> "store"
                                                   [] pend[g].op = "Remove" -> "delete"
                                                   [] pend[g].op = "Clear" -> "clear",
                                          !.before = regs[pend[g].reg]]]
    /\ UNCHANGED <<regs, evaluator, opts, ret, markerVars>>
    /\ UNCHANGED cacheVars

\* Add's store: over the entry of the same name or at the end (237-254).
AddStore(g) ==
    /\ pend[g] # Nil
    /\ pend[g].pc = "store"
    /\ \E i \in {IndexOfName(regs[pend[g].reg], pend[g].compiled.Rule.Name)} :
           regs' = [regs EXCEPT ![pend[g].reg] =
                        IF i # 0 THEN [@ EXCEPT ![i] = pend[g].compiled]
                        ELSE Append(@, pend[g].compiled)]
    /\ pend' = [pend EXCEPT ![g].pc = "sort"]
    /\ UNCHANGED <<evaluator, opts, mu, ret, markerVars>>
    /\ UNCHANGED cacheVars

\* One turn of Merge's loop (383-392).
MergeNext(g) ==
    /\ pend[g] # Nil
    /\ pend[g].pc = "merge"
    /\ IF pend[g].k > Len(pend[g].sourceRules)
       THEN /\ pend' = [pend EXCEPT ![g].pc = "sort"]
            /\ regs' = regs
       ELSE \E S \in {MergeStep([rules |-> regs[pend[g].reg],
                                 existing |-> pend[g].existing],
                                pend[g].sourceRules[pend[g].k])} :
                /\ regs' = [regs EXCEPT ![pend[g].reg] = S.rules]
                /\ pend' = [pend EXCEPT ![g].k = @ + 1, ![g].existing = S.existing]
    /\ UNCHANGED <<evaluator, opts, mu, ret, markerVars>>
    /\ UNCHANGED cacheVars

\* r.sortRulesLocked() of Add and of Merge.
SortRules(g) ==
    /\ pend[g] # Nil
    /\ pend[g].pc = "sort"
    /\ regs' = [regs EXCEPT ![pend[g].reg] = sortRulesLocked(@)]
    /\ pend' = [pend EXCEPT ![g].pc = "unlock"]
    /\ UNCHANGED <<evaluator, opts, mu, ret, markerVars>>
    /\ UNCHANGED cacheVars

\* Remove's slices.Delete (279-284).
RemoveDelete(g) ==
    /\ pend[g] # Nil
    /\ pend[g].pc = "delete"
    /\ \E r \in {Remove(regs[pend[g].reg], pend[g].name)} :
           /\ regs' = [regs EXCEPT ![pend[g].reg] = r.rules]
           /\ pend' = [pend EXCEPT ![g].pc = "unlock", ![g].found = r.found]
    /\ UNCHANGED <<evaluator, opts, mu, ret, markerVars>>
    /\ UNCHANGED cacheVars

\* Clear's assignment (344).
ClearReset(g) ==
    /\ pend[g] # Nil
    /\ pend[g].pc = "clear"
    /\ regs' = [regs EXCEPT ![pend[g].reg] = Clear(@)]
    /\ pend' = [pend EXCEPT ![g].pc = "unlock"]
    /\ UNCHANGED <<evaluator, opts, mu, ret, markerVars>>
    /\ UNCHANGED cacheVars

\* The deferred Unlock and the return of Add, Remove, Merge and Clear.
WriteReturn(g) ==
    /\ pend[g] # Nil
    /\ pend[g].pc = "unlock"
    /\ mu' = [mu EXCEPT ![pend[g].reg] = Unlock(@, g)]
    /\ ret' = [op |-> pend[g].op, reg |-> pend[g].reg, call |-> pend[g],
               val |-> IF pend[g].op = "Remove" THEN pend[g].found ELSE Nil]
    /\ pend' = [pend EXCEPT ![g] = Nil]
    /\ UNCHANGED <<regs, evaluator, opts, markerVars>>
    /\ UNCHANGED cacheVars

\* The rules the callers add to r, and the rules registry s holds.
LockRules ==
    {MkRule("a", TRUE, Low, Nil, Allow),
     MkRule("a", FALSE, High, Nil, Warn),
     MkRule("b", TRUE, High, Nil, Allow)}

LockSource ==
    AddLocked(AddLocked(NewRegistry,
                        AddPrepare(MkRule("a", TRUE, High, Nil, Block), Nil).compiled),
              AddPrepare(MkRule("c", TRUE, Low, Nil, Allow), Nil).compiled)

InitLock ==
    /\ InitCache
    /\ InitNoEvaluator
    /\ regs = [id \in {"r", "s"} |-> IF id = "s" THEN LockSource ELSE NewRegistry]
    /\ pend = [g \in Procs |-> Nil]
    /\ mu = [id \in {"r", "s"} |-> NewRWMutex]
    /\ ret = NoRet

NextLock ==
    \/ \E g \in Procs, op \in ReadOps, name \in {"a"} : ReadCall(g, "r", op, name)
    \/ \E g \in Procs : ReadRLock(g)
    \/ \E g \in Procs : ReadNext(g)
    \/ \E g \in Procs : ReadReturn(g)
    \/ \E g \in Procs, rule \in LockRules \cup {Nil} : AddCall(g, "r", rule)
    \/ \E g \in Procs : RemoveCall(g, "r", "a")
    \/ \E g \in Procs : ClearCall(g, "r")
    \/ \E g \in Procs, source \in {NilRegistry, "r", "s"} : MergeCall(g, "r", source)
    \/ \E g \in Procs : MergeRLock(g)
    \/ \E g \in Procs : MergeRUnlock(g)
    \/ \E g \in Procs : AcquireLock(g)
    \/ \E g \in Procs : AddStore(g)
    \/ \E g \in Procs : MergeNext(g)
    \/ \E g \in Procs : SortRules(g)
    \/ \E g \in Procs : RemoveDelete(g)
    \/ \E g \in Procs : ClearReset(g)
    \/ \E g \in Procs : WriteReturn(g)

\* Two goroutines reading and writing registry r.
SpecLock == InitLock /\ [][NextLock]_vars

\* What a whole write leaves of the list it found: the call's effect when
\* nothing else touches the registry.
WholeWrite(p) ==
    CASE p.op = "Add" -> AddLocked(p.before, p.compiled)
      [] p.op = "Remove" -> Remove(p.before, p.name).rules
      [] p.op = "Clear" -> Clear(p.before)
      [] p.op = "Merge" -> MergeLocked(p.before, p.sourceRules)

\* What a read returns on the whole list rules.
WholeRead(p, rules) ==
    CASE p.op = "Get" -> Get(rules, p.name)
      [] p.op = "GetAll" -> GetAll(rules)
      [] p.op = "GetEnabled" -> GetEnabled(rules)
      [] p.op = "Size" -> Size(rules)

NoDuplicateName(rules) ==
    \A i, j \in 1..Len(rules) : i # j => rules[i].Rule.Name # rules[j].Rule.Name

\* C34: a read of the registry that runs concurrently with Add, Remove,
\* Merge or Clear returns what it would return on a list that no write is in
\* the middle of: when it returns, no writer is between its Lock and Unlock,
\* the elements it loaded are the registry's list, which is sorted and free
\* of duplicate names, and every write that has returned changed the list
\* it found into exactly the list the whole call produces.
C34_ReadsSeeWholeLists ==
    [][\A g \in Procs :
        /\ (pend[g] # Nil /\ pend[g].op \in ReadOps /\ pend[g].pc = "read"
                /\ pend'[g] = Nil) =>
               /\ \A h \in Procs : ~InSection(h, pend[g].reg)
               /\ Sorted(regs[pend[g].reg])
               /\ NoDuplicateName(regs[pend[g].reg])
               /\ ret'.val = WholeRead(pend[g], regs[pend[g].reg])
               /\ pend[g].op \in {"GetAll", "GetEnabled"} =>
                      pend[g].obs = regs[pend[g].reg]
        /\ (pend[g] # Nil /\ pend[g].op \in WriteOps /\ pend[g].pc = "unlock"
                /\ pend'[g] = Nil) =>
               regs[pend[g].reg] = WholeWrite(pend[g])]_vars

\* GetEnabled was called while a writer had the list half changed, and
\* returned a list of two rules or more.
C34_Witness ==
    /\ ret.op = "GetEnabled"
    /\ ret.overlap
    /\ Len(ret.val) >= 2

\* The evaluator built like the one in use but with WithStopOnFirstMatch(stop)
\* as its last option.
Twin(stop) == NewEvaluator(evaluator.registry, Append(opts, WithStopOnFirstMatch(stop)))

\* C35: Evaluate's result does not depend on the stop-on-first-match option:
\* whenever Evaluate returns, the evaluator built over the same registry
\* with WithStopOnFirstMatch(true) and the one built with
\* WithStopOnFirstMatch(false) return that same result, and the two agree on
\* every context.
C35_StopOptionIgnored ==
    [][(ret'.op = "Evaluate" /\ ~ret'.panic) =>
           /\ \A stop \in BOOLEAN :
                  /\ Twin(stop).stopOnFirstMatch = stop
                  /\ Evaluate(Twin(stop), regs, ret'.ctx) = ret'.val
           /\ \A ctx \in Contexts :
                  Evaluate(Twin(TRUE), regs, ctx) = Evaluate(Twin(FALSE), regs, ctx)]_vars

\* An evaluator built with WithStopOnFirstMatch(false) returned a match for a
\* context that two enabled rules or more match.
C35_Witness ==
    /\ ret.op = "Evaluate"
    /\ ~ret.panic
    /\ ~evaluator.stopOnFirstMatch
    /\ ret.val.Matched
    /\ Len(EvaluateAll(evaluator, regs, ret.ctx)) >= 2

\* r agrees with the head of EvaluateAll's list all: matched exactly when the
\* list is non-empty, and then the same rule, action, message and reference.
AgreesWithFirst(r, all) ==
    /\ r.Matched <=> all # <<>>
    /\ r.Matched =>
           /\ r.Rule = all[1].Rule
           /\ r.Action = all[1].Action
           /\ r.Message = all[1].Message
           /\ r.Reference = all[1].Reference

\* C36: for every registry state and every context, Evaluate reports
\* matched=true exactly when EvaluateAll returns a non-empty list, and then
\* Evaluate's rule, action, message and reference are those of EvaluateAll's
\* first element; checked at every return of Evaluate against EvaluateAll on
\* the same state and at every return of EvaluateAll against Evaluate.
C36_EvaluateIsHeadOfEvaluateAll ==
    [][/\ (ret'.op = "Evaluate" /\ ~ret'.panic) =>
              AgreesWithFirst(ret'.val, EvaluateAll(evaluator, regs, ret'.ctx))
       /\ (ret'.op = "EvaluateAll" /\ ~ret'.panic) =>
              AgreesWithFirst(Evaluate(evaluator, regs, ret'.ctx), ret'.val)]_vars

\* EvaluateAll returned two results or more while the registry also holds a
\* disabled rule.
C36_Witness ==
    /\ ret.op = "EvaluateAll"
    /\ ~ret.panic
    /\ Len(ret.val) >= 2
    /\ evaluator.registry # NilRegistry
    /\ \E i \in 1..Len(regs["r"]) : ~regs["r"][i].Rule.Enabled

(***************************************************************************)
(* Rules of pairwise distinct names added in every order.                  *)
(***************************************************************************)
\* Valid rules whose priorities collide across names.
OrderPool ==
    {MkRule("a", TRUE, Low, Nil, Allow),
     MkRule("a", TRUE, High, OnOrigin, Warn),
     MkRule("b", TRUE, Low, OnOrigin, Block),
     MkRule("c", TRUE, Low, Nil, Warn),
     MkRule("c", FALSE, High, Nil, Block)}

\* The lists of at most MaxList rules of the pool with pairwise distinct names.
OrderLists ==
    {list \in SeqsUpTo(OrderPool, MaxList) :
        \A i, j \in 1..Len(list) : i # j => list[i].Name # list[j].Name}

NextOrder ==
    \/ \E list \in OrderLists : AddAllAct("r", list)
    \/ \E name \in Names : RemoveAct("r", name)
    \/ ClearAct("r")

SpecOrder == Init /\ [][NextOrder]_vars

\* The list in the order p, a permutation of its indices.
Permuted(list, p) == [i \in 1..Len(list) |-> list[p[i]]]

\* C37: for valid rules with pairwise distinct names, every order of the Add
\* calls leaves the registry with the same list, so Evaluate returns the
\* same result for every context whatever the order, also when priorities
\* collide: whenever the rules of a list have been added one after the
\* other, adding them to the same registry in any other order gives the
\* list the registry now holds and the same Evaluate results.
C37_AddOrderIrrelevant ==
    [][ret'.op = "AddAll" =>
           \A p \in Permutations(1..Len(ret'.list)) :
               \E other \in {AddAll(regs["r"], Permuted(ret'.list, p), CurK)} :
                   /\ ret'.val.err = Nil
                   /\ other.err = Nil
                   /\ other.rules = regs'["r"]
                   /\ \A ctx \in Contexts :
                          Evaluate(NewEvaluator("r", <<>>), [regs EXCEPT !["r"] = other.rules], ctx)
                              = Evaluate(NewEvaluator("r", <<>>), regs', ctx)]_vars

\* Three rules of one priority were added in an order that is not the
\* registry's.
C37_Witness ==
    /\ ret.op = "AddAll"
    /\ Len(ret.list) = 3
    /\ \A i \in 1..3 : ret.list[i].Priority = Low
    /\ ret.list[1].Name = "c"
    /\ ret.list[3].Name = "a"
    /\ Len(regs["r"]) = 3
    /\ regs["r"][1].Rule = ret.list[3]

\* The texts of the cached pattern fields (every one but the content
\* pattern) at the positions in S of the field order.
CachedTexts(match, S) ==
    {match[PatternFieldOrder[i]] : i \in {j \in S : PatternFieldOrder[j] # "ContentPattern"}}
        \ {""}

\* The cache holds for text t what it held before the step.
EntryKept(t) ==
    /\ cache'.patterns[t] = cache.patterns[t]
    /\ cache'.errors[t] = cache.errors[t]
    /\ compiles'[t] = compiles[t]

\* What a failed BuildMatcher whose first failing field is at position first
\* leaves in the cache.
FailureTrace(match, err, first) ==
    /\ \A t \in CachedTexts(match, 1..(first - 1)) : cache'.patterns[t] # Nil
    /\ \A t \in CachedTexts(match, (first + 1)..Len(PatternFieldOrder))
                   \ CachedTexts(match, 1..first) : EntryKept(t)
    /\ IF PatternFieldOrder[first] # "ContentPattern"
       THEN /\ cache'.errors[match[PatternFieldOrder[first]]] = err
            /\ cache'.patterns[match[PatternFieldOrder[first]]] = Nil
       ELSE match[PatternFieldOrder[first]] \notin CachedTexts(match, 1..first)
                => EntryKept(match[PatternFieldOrder[first]])
    /\ \A t \in PatternTexts :
           /\ cache.patterns[t] # Nil => cache'.patterns[t] = cache.patterns[t]
           /\ cache.errors[t] # Nil => cache'.errors[t] = cache.errors[t]

\* C38: a BuildMatcher call that fails compiles no pattern field after the
\* failing one, yet leaves in the pattern cache every pattern it compiled
\* before the failure and, when the failing field is not the content
\* pattern, the failing text's error; a failed Registry.Add leaves the
\* registry as it was, whatever it did to the cache.
C38_FailedBuildLeavesCacheTrace ==
    [][/\ (ret'.op = "BuildMatcher" /\ ret'.err # Nil) =>
              /\ Failing(ret'.match) # {}
              /\ \E first \in Failing(ret'.match) :
                     /\ \A j \in Failing(ret'.match) : first <= j
                     /\ FailureTrace(ret'.match, ret'.err, first)
       /\ (ret'.op = "Add" /\ ret'.val.err # Nil) =>
              /\ regs' = regs
              /\ \E first \in Failing(ret'.rule.Match) :
                     /\ \A j \in Failing(ret'.rule.Match) : first <= j
                     /\ FailureTrace(ret'.rule.Match, ret'.val.err.cause, first)]_vars

\* A failed Add on the empty cache: the repository pattern is cached, the
\* file pattern's error is cached, the command pattern was never compiled
\* and the registry is empty.
C38_Witness ==
    /\ ret.op = "Add"
    /\ ret.val.err # Nil
    /\ ret.rule.Match.RepoPattern = "main"
    /\ ret.rule.Match.FilePattern = "[b"
    /\ ret.rule.Match.CommandPattern = "[d"
    /\ cache.patterns["main"] # Nil
    /\ cache.errors["[b"] # Nil
    /\ cache.errors["[d"] = Nil
    /\ compiles["[d"] = 0
    /\ regs["r"] = NewRegistry

\* C39: building a content-pattern matcher neither reads nor writes the
\* pattern cache: after BuildMatcher of a condition set that holds only a
\* content pattern the cache, its Size and its errors are what they were,
\* no cached compilation ran, and the result is NewRegexPattern's on the
\* text, whatever the cache holds for that text, on the first use and on
\* every later one.
C39_ContentBypassesCache ==
    [][(ret'.op = "BuildMatcher" /\ Given(ret'.match) = {"ContentPattern"}) =>
           \E c \in {NewRegexPattern(ret'.match.ContentPattern, 0)} :
               /\ cache' = cache
               /\ CacheSize(cache') = CacheSize(cache)
               /\ compiles' = compiles
               /\ ret'.err = c.err
               /\ c.err = Nil => ret'.matcher.pattern = c.pattern
               /\ c.err # Nil => ret'.err.from = "regexp"]_vars

\* The second use of an invalid content pattern whose text the cache holds
\* an error for: the error is a new one and the cache is as it was.
C39_Witness ==
    /\ ret.op = "BuildMatcher"
    /\ Given(ret.match) = {"ContentPattern"}
    /\ ret.match.ContentPattern = "[a"
    /\ ret.uses = 2
    /\ ret.err # Nil
    /\ ret.before.errors["[a"] # Nil
    /\ ret.err # ret.before.errors["[a"]
    /\ cache = ret.before

(***************************************************************************)
(* Two goroutines merging registries r and s into each other and into      *)
(* themselves.                                                             *)
(***************************************************************************)
InitMerge ==
    /\ InitCache
    /\ InitNoEvaluator
    /\ regs = [id \in {"r", "s"} |->
                  IF id = "s" THEN LockSource
                  ELSE AddLocked(NewRegistry,
                                 AddPrepare(MkRule("b", TRUE, High, Nil, Warn), Nil).compiled)]
    /\ pend = [g \in Procs |-> Nil]
    /\ mu = [id \in {"r", "s"} |-> NewRWMutex]
    /\ ret = NoRet

NextMerge ==
    \/ \E g \in Procs, dst \in {"r", "s"}, source \in {NilRegistry, "r", "s"} :
           MergeCall(g, dst, source)
    \/ \E g \in Procs : MergeRLock(g)
    \/ \E g \in Procs : MergeRUnlock(g)
    \/ \E g \in Procs : AcquireLock(g)
    \/ \E g \in Procs : MergeNext(g)
    \/ \E g \in Procs : SortRules(g)
    \/ \E g \in Procs : WriteReturn(g)

SpecMerge == InitMerge /\ [][NextMerge]_vars

\* A goroutine inside a call keeps running, and a goroutine blocked in RLock
\* or Lock gets the lock if the lock is free again and again: sync.RWMutex
\* hands a released lock to its waiters.
SpecMergeFair ==
    /\ SpecMerge
    /\ \A g \in Procs :
           /\ WF_vars(MergeRUnlock(g))
           /\ WF_vars(MergeNext(g))
           /\ WF_vars(SortRules(g))
           /\ WF_vars(WriteReturn(g))
           /\ SF_vars(MergeRLock(g))
           /\ SF_vars(AcquireLock(g))

\* Goroutine g holds a read lock while it holds, or is blocked in Lock for,
\* a write lock.
HoldsBoth(g) ==
    /\ \E id \in DOMAIN mu : g \in mu[id].r
    /\ \E id \in DOMAIN mu : mu[id].w = g \/ g \in mu[id].waiting

\* C40: Merge never holds the source registry's lock and the receiver's lock
\* at the same time, so every Merge that was called returns, r.Merge(s)
\* running together with s.Merge(r) and r.Merge(r) included; and a registry
\* merged into itself, with no other write in between the copy and the
\* lock, holds after the call the list it held before.
C40_MergeTerminates ==
    /\ [](\A g \in Procs : ~HoldsBoth(g))
    /\ [][\A g \in Procs :
            (pend[g] # Nil /\ pend[g].op = "Merge" /\ pend[g].pc = "unlock"
                 /\ pend'[g] = Nil /\ pend[g].source = pend[g].reg
                 /\ pend[g].sourceRules = pend[g].before) =>
                regs'[pend[g].reg] = pend[g].before]_vars
    /\ \A g \in Procs : (pend[g] # Nil) ~> (pend[g] = Nil)

\* r.Merge(s) has returned while the other goroutine is inside s.Merge(r),
\* under the write lock of s, with the copy of r it took before.
C40_Witness ==
    /\ ret.op = "Merge"
    /\ ret.reg = "r"
    /\ "call" \in DOMAIN ret
    /\ ret.call.source = "s"
    /\ \E g \in Procs :
           /\ InSection(g, "s")
           /\ pend[g].source = "r"
           /\ pend[g].sourceRules # regs["r"]

====
